---- MODULE Spec2Model ----
(***************************************************************************)
(* eDog: the audio scanner of scan.c (knock and doorbell-ring detection on *)
(* a 16 kHz mono stream), the player of waveplayer.c that feeds it from    *)
(* the microphone, and the serial port of serial.c that carries its log.   *)
(*                                                                         *)
(* Numbers.  The C ints are integers; int16_t values are wrapped with      *)
(* Wrap16 where the code stores them.  The C floats are kept in fixed      *)
(* point: a float f is the integer round(f * FP), and every product is     *)
(* rounded to the nearest unit, as a float product is rounded to the       *)
(* nearest representable value.  The compile-time float ratios (1.1F,      *)
(* 1.5F, 0.5F, ...) are kept as exact fractions <<numerator, denominator>>.*)
(***************************************************************************)
EXTENDS Integers, Sequences, FiniteSets, TLC

----------------------------------------------------------------------------
(* scan.h *)
SCAN_KNOCK_DETECTED == 1
SCAN_BELL_DETECTED == 2
SCAN_HIGH_SENSITIVITY == 1
SCAN_DISP_THRESHOLDS == 2
SCAN_DISP_EVENTS == 4
SCAN_DISP_PEAKS == 8
SCAN_OUTP_DECORR_AUDIO == 16
SCAN_OUTP_DECORR_LEVEL == 32
SCAN_OUTP_NORMAL_AUDIO == 64
SCAN_OUTP_WINDOW_LEVEL == 128
SCAN_OUTP_FILTER_AUDIO == 256
SCAN_OUTP_FILTER_LEVEL == 512

(* scan.c, local macros *)
SAMPLING_RATE == 16000
MAX_NUM_PEAKS == 16
KNOCK_MAX_SPAN == 12000
KNOCK_MIN_SPAN == 4000
WINDOW_BITS == 8
WINDOW_SIZE == 2^WINDOW_BITS
WINDOW_MASK == WINDOW_SIZE - 1
NORMALIZATION_LEVEL == 128
OUT_BUFFER_SAMPLES == 128
ANALYSIS_INTERVAL == SAMPLING_RATE \div 10
DAY_SAMPLES == SAMPLING_RATE * 3600 * 24

(* flags & mask, for a one-bit mask *)
FlagSet(flags, mask) == (flags \div mask) % 2 = 1

(* a | b for two detection masks (values 0..3) *)
BitOr(a, b) ==
    (IF a % 2 = 1 \/ b % 2 = 1 THEN 1 ELSE 0)
  + (IF (a \div 2) % 2 = 1 \/ (b \div 2) % 2 = 1 THEN 2 ELSE 0)

(* KNOCK_MAX_RATIO with the two ratios exchanged *)
KNOCK_MAX_RATIO_exchanged(flags) ==
    IF FlagSet(flags, SCAN_HIGH_SENSITIVITY) THEN <<11, 10>> ELSE <<6, 5>>

KNOCK_MAX_RATIO(flags) ==
    IF FlagSet(flags, SCAN_HIGH_SENSITIVITY) THEN <<6, 5>> ELSE <<11, 10>>

(* THRESHOLD_SCALING with the two scalings exchanged *)
THRESHOLD_SCALING_exchanged(flags) ==
    IF FlagSet(flags, SCAN_HIGH_SENSITIVITY) THEN <<3, 2>> ELSE <<5, 4>>

THRESHOLD_SCALING(flags) ==
    IF FlagSet(flags, SCAN_HIGH_SENSITIVITY) THEN <<5, 4>> ELSE <<3, 2>>

(* SPURIOUS_REJECTION_RATIO with the two ratios exchanged *)
SPURIOUS_REJECTION_RATIO_exchanged(flags) ==
    IF FlagSet(flags, SCAN_HIGH_SENSITIVITY) THEN <<1, 2>> ELSE <<3, 4>>

SPURIOUS_REJECTION_RATIO(flags) ==
    IF FlagSet(flags, SCAN_HIGH_SENSITIVITY) THEN <<3, 4>> ELSE <<1, 2>>

----------------------------------------------------------------------------
(* Arithmetic *)

(* units per 1.0 of a float kept in fixed point: the 1/256 step of the     *)
(* level trackers is then exactly one unit per unit of sample magnitude    *)
FP == 256

(* units per 1.0 of a biquad coefficient *)
COEF_ONE == 16384

Abs(x) == IF x < 0 THEN -x ELSE x

Sgn(x) == IF x < 0 THEN -1 ELSE 1

(* the value an int16_t holds after v is stored in it *)
Wrap16(v) == ((v + 32768) % 65536) - 32768

(* a / b rounded to the nearest integer (a >= 0, b > 0) *)
RoundDiv(a, b) == (2 * a + b) \div (2 * b)

(* x * n / d rounded to the nearest integer, for any sign of x and n,      *)
(* without forming x * n (n and d are small against x)                     *)
MulRatio(x, n, d) ==
    IF x = 0 \/ n = 0 THEN 0
    ELSE LET ax == Abs(x)
             an == Abs(n)
             m  == (ax \div d) * an + RoundDiv((ax % d) * an, d)
         IN  Sgn(x) * Sgn(n) * m

(* v >> k of C on a signed int: the floor of v / 2^k *)
Shr(v, k) == v \div (2^k)

----------------------------------------------------------------------------
(* struct biquad: the bell bandpass, 770 Hz, Q = 100 *)

BELL_GAIN == 4
BELL_A0 == 24
BELL_A1 == 0
BELL_A2 == -24
BELL_B1 == -31235
BELL_B2 == 16335

biquad_init(gain, a0, a1, a2, b1, b2) ==
    [a0 |-> a0 * gain, a1 |-> a1 * gain, a2 |-> a2 * gain, b1 |-> b1, b2 |-> b2,
     in_d1 |-> 0, in_d2 |-> 0, out_d1 |-> 0, out_d2 |-> 0]

(* the statically zeroed filter, before scan_audio_init has run *)
ZeroBiquad ==
    [a0 |-> 0, a1 |-> 0, a2 |-> 0, b1 |-> 0, b2 |-> 0,
     in_d1 |-> 0, in_d2 |-> 0, out_d1 |-> 0, out_d2 |-> 0]

(* [f |-> the filter afterwards, sum |-> the filtered sample] *)
biquad_apply(f, input) ==
    LET sum == MulRatio(input, f.a0, COEF_ONE) + MulRatio(f.in_d1, f.a1, COEF_ONE)
             + MulRatio(f.in_d2, f.a2, COEF_ONE) - MulRatio(f.out_d1, f.b1, COEF_ONE)
             - MulRatio(f.out_d2, f.b2, COEF_ONE)
    IN  [f   |-> [f EXCEPT !.out_d2 = f.out_d1, !.out_d1 = sum,
                           !.in_d2 = f.in_d1, !.in_d1 = input],
         sum |-> sum]

----------------------------------------------------------------------------
(* struct peak *)

(* n zeros, as a tuple *)
RECURSIVE Zeros(_)
Zeros(n) ==
    IF n = 0 THEN <<>>
    ELSE IF n = 1 THEN <<0>>
    ELSE Zeros(n \div 2) \o Zeros(n - n \div 2)

ZeroPeak ==
    [time |-> 0, area |-> 0, width |-> 0, height |-> 0, filter_hits |-> 0,
     filtered_level |-> 0]

(* The detector: every static of scan.c, as a record.  sample_window is a  *)
(* tuple: the C element sample_window [i] is sample_window[i + 1] here.    *)
(* decorrelated_level, peak_threshold, filtered_level, the biquad delays   *)
(* and peak.filtered_level are floats (units of 1/FP).                     *)
PowerOn ==
    [bell_biquad        |-> ZeroBiquad,
     current_peak       |-> ZeroPeak,
     peak_buffer        |-> [i \in 0 .. MAX_NUM_PEAKS - 1 |-> ZeroPeak],
     sample_window      |-> Zeros(WINDOW_SIZE),
     num_peaks          |-> 0,
     sample_index       |-> 0,
     filtered_level     |-> 0,
     decorrelated_level |-> 32760 * FP,
     peak_threshold     |-> 30 * FP,
     peak_started       |-> 0,
     window_index       |-> 0,
     window_sum         |-> 0,
     last_sample        |-> 0,
     weight             |-> 0]

(* scan_audio_init: all it does is initialize the bell filter *)
InitDetector(s) ==
    [s EXCEPT !.bell_biquad =
        biquad_init(BELL_GAIN, BELL_A0, BELL_A1, BELL_A2, BELL_B1, BELL_B2)]

----------------------------------------------------------------------------
(* add_peak: [num_peaks, peak_buffer, dbg] after adding new_peak *)

(* smallest_peak with <= for its <: an incumbent as high as the new peak   *)
(* counts as smaller                                                       *)
RECURSIVE smallest_peak_or_equal(_, _, _, _, _)
smallest_peak_or_equal(buf, n, i, smallest_peak_height, smallest_peak_index) ==
    IF i >= n THEN <<smallest_peak_height, smallest_peak_index>>
    ELSE IF buf[i].height <= smallest_peak_height
         THEN smallest_peak_or_equal(buf, n, i + 1, buf[i].height, i)
         ELSE smallest_peak_or_equal(buf, n, i + 1, smallest_peak_height,
                                     smallest_peak_index)

(* the first loop of add_peak from index i on: <<smallest_peak_height,    *)
(* smallest_peak_index>>                                                   *)
RECURSIVE smallest_peak(_, _, _, _, _)
smallest_peak(buf, n, i, smallest_peak_height, smallest_peak_index) ==
    IF i >= n THEN <<smallest_peak_height, smallest_peak_index>>
    ELSE IF buf[i].height < smallest_peak_height
         THEN smallest_peak(buf, n, i + 1, buf[i].height, i)
         ELSE smallest_peak(buf, n, i + 1, smallest_peak_height, smallest_peak_index)

(* for (i = from; i < n - 1; ++i) buf [i] = buf [i+1] *)
shift_down(buf, n, from) ==
    [i \in DOMAIN buf |-> IF i >= from /\ i < n - 1 THEN buf[i + 1] ELSE buf[i]]

(* peak_buffer [num_peaks++] = *new_peak; a store past the array's end is  *)
(* kept out of the array and shows in num_peaks alone                      *)
store_peak(buf, n, new_peak) ==
    [num_peaks   |-> n + 1,
     peak_buffer |-> IF n \in DOMAIN buf THEN [buf EXCEPT ![n] = new_peak] ELSE buf]

(* add_peak taking the buffer for full one peak too late *)
add_peak_past_capacity(buf, n, new_peak, flags) ==
    IF n > MAX_NUM_PEAKS
    THEN [num_peaks |-> n, peak_buffer |-> buf, dbg |-> <<>>]
    ELSE [num_peaks |-> store_peak(buf, n, new_peak).num_peaks,
          peak_buffer |-> store_peak(buf, n, new_peak).peak_buffer, dbg |-> <<>>]

(* add_peak writing the new peak over the smallest one, where it lies *)
add_peak_in_place(buf, n, new_peak, flags) ==
    IF n = MAX_NUM_PEAKS
    THEN IF smallest_peak(buf, n, 0, new_peak.height, -1)[2] = -1
         THEN [num_peaks |-> n, peak_buffer |-> buf, dbg |-> <<>>]
         ELSE [num_peaks |-> n,
               peak_buffer |-> [buf EXCEPT
                   ![smallest_peak(buf, n, 0, new_peak.height, -1)[2]] = new_peak],
               dbg |-> <<>>]
    ELSE [num_peaks |-> store_peak(buf, n, new_peak).num_peaks,
          peak_buffer |-> store_peak(buf, n, new_peak).peak_buffer, dbg |-> <<>>]

add_peak(buf, n, new_peak, flags) ==
    IF n = MAX_NUM_PEAKS
    THEN LET sm == smallest_peak(buf, n, 0, new_peak.height, -1)
         IN  IF sm[2] = -1
             THEN [num_peaks |-> n, peak_buffer |-> buf,
                   dbg |-> IF FlagSet(flags, SCAN_DISP_EVENTS)
                           THEN <<"discarded newest peak">> ELSE <<>>]
             ELSE LET st == store_peak(shift_down(buf, n, sm[2]), n - 1, new_peak)
                  IN  [num_peaks |-> st.num_peaks, peak_buffer |-> st.peak_buffer,
                       dbg |-> IF FlagSet(flags, SCAN_DISP_EVENTS)
                               THEN <<"discarded smallest peak">> ELSE <<>>]
    ELSE LET st == store_peak(buf, n, new_peak)
         IN  [num_peaks |-> st.num_peaks, peak_buffer |-> st.peak_buffer, dbg |-> <<>>]

----------------------------------------------------------------------------
(* check_peaks *)

(* while (num_peaks && peak_buffer [0].time + KNOCK_MAX_SPAN * 2 <        *)
(* sample_index): delete the oldest peak                                   *)
RECURSIVE expire_peaks_late(_, _, _)
expire_peaks_late(buf, n, sample_index) ==
    IF n /= 0 /\ buf[0].time + KNOCK_MAX_SPAN * 3 < sample_index
    THEN expire_peaks_late(shift_down(buf, n, 0), n - 1, sample_index)
    ELSE [num_peaks |-> n, peak_buffer |-> buf]

RECURSIVE expire_peaks(_, _, _)
expire_peaks(buf, n, sample_index) ==
    IF n /= 0 /\ buf[0].time + KNOCK_MAX_SPAN * 2 < sample_index
    THEN expire_peaks(shift_down(buf, n, 0), n - 1, sample_index)
    ELSE [num_peaks |-> n, peak_buffer |-> buf]

(* (float) hi / lo < r, r a fraction: what the float division gives for    *)
(* every sign of lo (lo = 0 gives an infinity or a NaN, never below r)     *)
RatioBelow(hi, lo, r) ==
    IF lo > 0 THEN hi * r[2] < lo * r[1]
    ELSE IF lo = 0 THEN FALSE
    ELSE hi * r[2] > lo * r[1]

Min3(a, b, c) ==
    LET m1 == a
        m2 == IF b < m1 THEN b ELSE m1
    IN  IF c < m2 THEN c ELSE m2

(* the loop over i of the knock search from index i on: the index it stops *)
(* at, n when no other peak of the region is higher than min_height (the   *)
(* fraction r of min_h)                                                    *)
RECURSIVE spurious_peak(_, _, _, _, _, _, _, _, _)
spurious_peak(buf, n, i, p1, p2, p3, span, min_h, r) ==
    IF i >= n THEN n
    ELSE IF /\ i /= p1 /\ i /= p2 /\ i /= p3
            /\ buf[i].time > buf[p1].time - (span \div 3)
            /\ buf[i].time < buf[p3].time + (span \div 3)
            /\ buf[i].height * r[2] > min_h * r[1]
         THEN i
         ELSE spurious_peak(buf, n, i + 1, p1, p2, p3, span, min_h, r)

(* knock_triple without the test of the middle peak's width *)
knock_triple_p2_any_width(buf, n, p1, p2, p3, sample_index, flags) ==
    /\ buf[p3].time - buf[p1].time > KNOCK_MIN_SPAN
    /\ buf[p3].time - buf[p1].time < KNOCK_MAX_SPAN
    /\ buf[p1].width < 512
    /\ buf[p3].width < 512
    /\ buf[p3].time + ((buf[p3].time - buf[p1].time) \div 2) < sample_index
    /\ spurious_peak(buf, n, 0, p1, p2, p3, buf[p3].time - buf[p1].time,
                     Min3(buf[p1].height, buf[p2].height, buf[p3].height),
                     SPURIOUS_REJECTION_RATIO(flags)) = n
    /\ IF buf[p2].time - buf[p1].time > buf[p3].time - buf[p2].time
       THEN RatioBelow(buf[p2].time - buf[p1].time, buf[p3].time - buf[p2].time,
                       KNOCK_MAX_RATIO(flags))
       ELSE RatioBelow(buf[p3].time - buf[p2].time, buf[p2].time - buf[p1].time,
                       KNOCK_MAX_RATIO(flags))

(* knock_triple without the test of the post-roll *)
knock_triple_no_post_roll(buf, n, p1, p2, p3, sample_index, flags) ==
    /\ buf[p3].time - buf[p1].time > KNOCK_MIN_SPAN
    /\ buf[p3].time - buf[p1].time < KNOCK_MAX_SPAN
    /\ buf[p1].width < 512
    /\ buf[p2].width < 512
    /\ buf[p3].width < 512
    /\ spurious_peak(buf, n, 0, p1, p2, p3, buf[p3].time - buf[p1].time,
                     Min3(buf[p1].height, buf[p2].height, buf[p3].height),
                     SPURIOUS_REJECTION_RATIO(flags)) = n
    /\ IF buf[p2].time - buf[p1].time > buf[p3].time - buf[p2].time
       THEN RatioBelow(buf[p2].time - buf[p1].time, buf[p3].time - buf[p2].time,
                       KNOCK_MAX_RATIO(flags))
       ELSE RatioBelow(buf[p3].time - buf[p2].time, buf[p2].time - buf[p1].time,
                       KNOCK_MAX_RATIO(flags))

(* knock_triple with a post-roll of a quarter of the span *)
knock_triple_short_post_roll(buf, n, p1, p2, p3, sample_index, flags) ==
    /\ knock_triple_no_post_roll(buf, n, p1, p2, p3, sample_index, flags)
    /\ buf[p3].time + ((buf[p3].time - buf[p1].time) \div 4) < sample_index

(* the body of the innermost loop: whether the triple is reported *)
knock_triple(buf, n, p1, p2, p3, sample_index, flags) ==
    LET span == buf[p3].time - buf[p1].time
    IN  /\ span > KNOCK_MIN_SPAN
        /\ span < KNOCK_MAX_SPAN
        /\ buf[p1].width < 512
        /\ buf[p2].width < 512
        /\ buf[p3].width < 512
        /\ buf[p3].time + (span \div 2) < sample_index
        /\ LET d1 == buf[p2].time - buf[p1].time
               d2 == buf[p3].time - buf[p2].time
               min_h == Min3(buf[p1].height, buf[p2].height, buf[p3].height)
               i == spurious_peak(buf, n, 0, p1, p2, p3, span, min_h,
                                  SPURIOUS_REJECTION_RATIO(flags))
           IN  /\ i = n
               /\ IF d1 > d2 THEN RatioBelow(d1, d2, KNOCK_MAX_RATIO(flags))
                             ELSE RatioBelow(d2, d1, KNOCK_MAX_RATIO(flags))

(* knock_p3 reporting the knock and leaving num_peaks as it is *)
RECURSIVE knock_p3_keeps_peaks(_, _, _, _, _, _, _)
knock_p3_keeps_peaks(buf, st, p1, p2, p3, sample_index, flags) ==
    IF ~(st.detections = 0 /\ p3 < st.num_peaks) THEN st
    ELSE knock_p3_keeps_peaks(buf,
             IF knock_triple(buf, st.num_peaks, p1, p2, p3, sample_index, flags)
             THEN [st EXCEPT !.detections = BitOr(st.detections, SCAN_KNOCK_DETECTED)]
             ELSE st,
             p1, p2, p3 + 1, sample_index, flags)

(* The three nested loops.  st = [num_peaks, detections, dbg]; a detection *)
(* sets num_peaks to 0, which ends all three.                              *)
RECURSIVE knock_p3(_, _, _, _, _, _, _)
knock_p3(buf, st, p1, p2, p3, sample_index, flags) ==
    IF ~(st.detections = 0 /\ p3 < st.num_peaks) THEN st
    ELSE knock_p3(buf,
                  IF knock_triple(buf, st.num_peaks, p1, p2, p3, sample_index, flags)
                  THEN [num_peaks  |-> 0,
                        detections |-> BitOr(st.detections, SCAN_KNOCK_DETECTED),
                        dbg |-> IF FlagSet(flags, SCAN_DISP_EVENTS)
                                THEN Append(st.dbg, "knock detected") ELSE st.dbg]
                  ELSE st,
                  p1, p2, p3 + 1, sample_index, flags)

RECURSIVE knock_p2(_, _, _, _, _, _)
knock_p2(buf, st, p1, p2, sample_index, flags) ==
    IF ~(p2 < st.num_peaks - 1) THEN st
    ELSE knock_p2(buf, knock_p3(buf, st, p1, p2, p2 + 1, sample_index, flags),
                  p1, p2 + 1, sample_index, flags)

RECURSIVE knock_p1(_, _, _, _, _)
knock_p1(buf, st, p1, sample_index, flags) ==
    IF ~(p1 < st.num_peaks - 2) THEN st
    ELSE knock_p1(buf, knock_p2(buf, st, p1, p1 + 1, sample_index, flags),
                  p1 + 1, sample_index, flags)

(* ring_loop testing filter_hits before its increment *)
RECURSIVE ring_loop_post_increment(_, _, _, _, _)
ring_loop_post_increment(st, p1, sample_index, filtered_level, flags) ==
    IF ~(p1 < st.num_peaks) THEN st
    ELSE IF /\ st.peak_buffer[p1].time + SAMPLING_RATE > sample_index
            /\ filtered_level > st.peak_buffer[p1].filtered_level * 2 + 50 * FP
         THEN IF st.peak_buffer[p1].filter_hits = 5
              THEN [num_peaks   |-> 0,
                    peak_buffer |-> [st.peak_buffer EXCEPT ![p1].filter_hits = @ + 1],
                    detections  |-> BitOr(st.detections, SCAN_BELL_DETECTED),
                    dbg |-> st.dbg]
              ELSE ring_loop_post_increment(
                       [st EXCEPT !.peak_buffer[p1].filter_hits = @ + 1], p1 + 1,
                       sample_index, filtered_level, flags)
         ELSE ring_loop_post_increment(st, p1 + 1, sample_index, filtered_level, flags)

(* ring_loop letting a peak gather hits for two more analysis intervals *)
RECURSIVE ring_loop_wide_window(_, _, _, _, _)
ring_loop_wide_window(st, p1, sample_index, filtered_level, flags) ==
    IF ~(p1 < st.num_peaks) THEN st
    ELSE IF /\ st.peak_buffer[p1].time + SAMPLING_RATE + 2 * ANALYSIS_INTERVAL > sample_index
            /\ filtered_level > st.peak_buffer[p1].filtered_level * 2 + 50 * FP
         THEN IF st.peak_buffer[p1].filter_hits = 4
              THEN [num_peaks   |-> 0,
                    peak_buffer |-> [st.peak_buffer EXCEPT ![p1].filter_hits = @ + 1],
                    detections  |-> BitOr(st.detections, SCAN_BELL_DETECTED),
                    dbg |-> st.dbg]
              ELSE ring_loop_wide_window(
                       [st EXCEPT !.peak_buffer[p1].filter_hits = @ + 1], p1 + 1,
                       sample_index, filtered_level, flags)
         ELSE ring_loop_wide_window(st, p1 + 1, sample_index, filtered_level, flags)

(* ring_loop reporting the bell and leaving num_peaks as it is *)
RECURSIVE ring_loop_keeps_peaks(_, _, _, _, _)
ring_loop_keeps_peaks(st, p1, sample_index, filtered_level, flags) ==
    IF ~(p1 < st.num_peaks) THEN st
    ELSE IF /\ st.peak_buffer[p1].time + SAMPLING_RATE > sample_index
            /\ filtered_level > st.peak_buffer[p1].filtered_level * 2 + 50 * FP
         THEN IF st.peak_buffer[p1].filter_hits = 4
              THEN [num_peaks   |-> st.num_peaks,
                    peak_buffer |-> [st.peak_buffer EXCEPT ![p1].filter_hits = @ + 1],
                    detections  |-> BitOr(st.detections, SCAN_BELL_DETECTED),
                    dbg |-> st.dbg]
              ELSE ring_loop_keeps_peaks(
                       [st EXCEPT !.peak_buffer[p1].filter_hits = @ + 1], p1 + 1,
                       sample_index, filtered_level, flags)
         ELSE ring_loop_keeps_peaks(st, p1 + 1, sample_index, filtered_level, flags)

(* the ring loop from index p1 on; st = [num_peaks, peak_buffer,           *)
(* detections, dbg]                                                        *)
RECURSIVE ring_loop(_, _, _, _, _)
ring_loop(st, p1, sample_index, filtered_level, flags) ==
    IF ~(p1 < st.num_peaks) THEN st
    ELSE IF /\ st.peak_buffer[p1].time + SAMPLING_RATE > sample_index
            /\ filtered_level > st.peak_buffer[p1].filtered_level * 2 + 50 * FP
         THEN LET buf == [st.peak_buffer EXCEPT ![p1].filter_hits = @ + 1]
              IN  IF buf[p1].filter_hits = 5
                  THEN [num_peaks   |-> 0,
                        peak_buffer |-> buf,
                        detections  |-> BitOr(st.detections, SCAN_BELL_DETECTED),
                        dbg |-> IF FlagSet(flags, SCAN_DISP_EVENTS)
                                THEN Append(st.dbg, "ring detected") ELSE st.dbg]
                  ELSE ring_loop([st EXCEPT !.peak_buffer = buf], p1 + 1,
                                 sample_index, filtered_level, flags)
         ELSE ring_loop(st, p1 + 1, sample_index, filtered_level, flags)

(* what check_peaks returns and leaves: [num_peaks, peak_buffer,           *)
(* detections, dbg], and searched, searched_buffer: the peaks left by the  *)
(* expiry loop, which the two searches look at                             *)
check_result(ex, rg) ==
    [num_peaks |-> rg.num_peaks, peak_buffer |-> rg.peak_buffer,
     detections |-> rg.detections, dbg |-> rg.dbg,
     searched |-> ex.num_peaks, searched_buffer |-> ex.peak_buffer]

(* ring_search going through the peaks the knock search was given, not the *)
(* ones it left                                                            *)
ring_search_after_expiry(ex, kn, sample_index, filtered_level, flags) ==
    check_result(ex,
        ring_loop([num_peaks |-> ex.num_peaks, peak_buffer |-> ex.peak_buffer,
                   detections |-> kn.detections, dbg |-> kn.dbg],
                  0, sample_index, filtered_level, flags))

(* the ring search, after the knock search has left kn *)
ring_search(ex, kn, sample_index, filtered_level, flags) ==
    check_result(ex,
        ring_loop([num_peaks |-> kn.num_peaks, peak_buffer |-> ex.peak_buffer,
                   detections |-> kn.detections, dbg |-> kn.dbg],
                  0, sample_index, filtered_level, flags))

(* the knock search, after the expiry loop has left ex *)
knock_search(ex, sample_index, filtered_level, flags) ==
    ring_search(ex,
        knock_p1(ex.peak_buffer,
                 [num_peaks |-> ex.num_peaks, detections |-> 0, dbg |-> <<>>],
                 0, sample_index, flags),
        sample_index, filtered_level, flags)

check_peaks(buf, n, sample_index, filtered_level, flags) ==
    knock_search(expire_peaks(buf, n, sample_index), sample_index, filtered_level, flags)

----------------------------------------------------------------------------
(* scan_audio: the body of the loop, for one sample *)

(* the step of the weight taken from the sign of the sample alone *)
WeightStep_sign_of_sample(sample, last_sample) ==
    IF sample < 0 THEN -2 ELSE 2

(* ((sample ^ last_sample) >> 30 | 1) << 1 for two nonzero 16-bit values:  *)
(* the xor is negative exactly when the signs differ                       *)
WeightStep(sample, last_sample) ==
    IF (sample < 0) /= (last_sample < 0) THEN -2 ELSE 2

(* NormalizedMagnitude without the clipping *)
NormalizedMagnitude_unclipped(sample, level) ==
    IF sample = 0 THEN 0
    ELSE ((Abs(sample) * NORMALIZATION_LEVEL * FP) \div level) * FP

(* sample / decorrelated_level * NORMALIZATION_LEVEL, clipped to           *)
(* +-32760.0: its magnitude, in units of 1/FP (level > 0)                  *)
NormalizedMagnitude(sample, level) ==
    LET num == Abs(sample) * NORMALIZATION_LEVEL * FP
        q   == num \div level
        r   == num % level
        fr  == (r * FP) \div level
        up  == IF 2 * ((r * FP) % level) >= level THEN 1 ELSE 0
    IN  IF sample = 0 THEN 0
        ELSE IF q >= 32760 THEN 32760 * FP
        ELSE q * FP + fr + up

(* track_level with the products cut off instead of rounded *)
track_level_cut_off(level, magnitude) ==
    (level \div 256) * 255 + ((level % 256) * 255) \div 256 + magnitude \div 256

(* level * (255.0F / 256.0F) + magnitude * (1.0F / 256.0F), magnitude in   *)
(* units of 1/FP                                                           *)
track_level(level, magnitude) ==
    MulRatio(level, 255, 256) + RoundDiv(magnitude, 256)

(* the filtered sample as the int16_t written to out_samples *)
clip_filtered(filtered_sample) ==
    IF filtered_sample > 32760 * FP THEN 32760
    ELSE IF filtered_sample < -32760 * FP THEN -32760
    ELSE Sgn(filtered_sample) * (Abs(filtered_sample) \div FP)

(* Lines 127-199: decorrelation, level, normalization, window, bell        *)
(* filter, each stage handing its values to the next.  The result is [s,   *)
(* window_level, taps]; taps are the six values the OUTP flags select, in  *)
(* the order the code writes them.  entry is the int16_t stored in the     *)
(* window, bq what biquad_apply returns.                                   *)
front_result(s, x, sample, decorrelated_level, entry, window_sum, bq, level) ==
    [s |-> [s EXCEPT !.weight = IF sample /= 0 /\ s.last_sample /= 0
                                THEN Wrap16(s.weight + WeightStep(sample, s.last_sample))
                                ELSE s.weight,
                     !.last_sample = x,
                     !.decorrelated_level = decorrelated_level,
                     !.sample_window[s.window_index + 1] = entry,
                     !.window_sum = window_sum,
                     !.window_index = (s.window_index + 1) % WINDOW_SIZE,
                     !.bell_biquad = bq.f,
                     !.filtered_level = level],
     window_level |->
         Wrap16(Shr(window_sum + WINDOW_SIZE \div 2, WINDOW_BITS) - NORMALIZATION_LEVEL),
     taps |-> <<sample, decorrelated_level \div FP, Sgn(sample) * entry,
                Wrap16(Shr(window_sum + WINDOW_SIZE \div 2, WINDOW_BITS)
                       - NORMALIZATION_LEVEL),
                clip_filtered(bq.sum), level \div FP>>]

front_filter(s, x, sample, decorrelated_level, entry, window_sum, bq) ==
    front_result(s, x, sample, decorrelated_level, entry, window_sum, bq,
                 track_level(s.filtered_level, Abs(bq.sum)))

(* front_window without the subtraction of the expiring value *)
front_window_no_expiry(s, x, sample, decorrelated_level, norm_mag) ==
    front_filter(s, x, sample, decorrelated_level, norm_mag \div FP,
                 s.window_sum + norm_mag \div FP,
                 biquad_apply(s.bell_biquad, Sgn(sample) * norm_mag))

front_window(s, x, sample, decorrelated_level, norm_mag) ==
    front_filter(s, x, sample, decorrelated_level, norm_mag \div FP,
                 s.window_sum - s.sample_window[s.window_index + 1] + norm_mag \div FP,
                 biquad_apply(s.bell_biquad, Sgn(sample) * norm_mag))

front_level(s, x, sample, decorrelated_level) ==
    front_window(s, x, sample, decorrelated_level,
                 NormalizedMagnitude(sample, decorrelated_level))

front_sample(s, x, sample) ==
    front_level(s, x, sample, track_level(s.decorrelated_level, Abs(sample) * FP))

front_end(s, x) ==
    front_sample(s, x, Wrap16(x - Shr(s.weight * s.last_sample + 512, 10)))

(* accept_peak with the call of add_peak inside the display of the peak *)
accept_peak_when_displayed(s, new_peak, peak_threshold, ad, flags) ==
    IF FlagSet(flags, SCAN_DISP_PEAKS)
    THEN [s |-> [s EXCEPT !.peak_started = 0,
                          !.peak_threshold = peak_threshold,
                          !.current_peak = new_peak,
                          !.peak_buffer = ad.peak_buffer,
                          !.num_peaks = ad.num_peaks],
          dbg |-> <<"peak added">> \o ad.dbg,
          adds |-> <<[new_peak |-> new_peak,
                      num_peaks |-> s.num_peaks, peak_buffer |-> s.peak_buffer,
                      num_peaks_after |-> ad.num_peaks,
                      peak_buffer_after |-> ad.peak_buffer]>>]
    ELSE [s |-> [s EXCEPT !.peak_started = 0,
                          !.peak_threshold = peak_threshold,
                          !.current_peak = new_peak],
          dbg |-> <<>>,
          adds |-> <<>>]

(* lines 236-243: the finished peak new_peak is logged and added; ad is    *)
(* what add_peak did                                                       *)
accept_peak(s, new_peak, peak_threshold, ad, flags) ==
    [s |-> [s EXCEPT !.peak_started = 0,
                     !.peak_threshold = peak_threshold,
                     !.current_peak = new_peak,
                     !.peak_buffer = ad.peak_buffer,
                     !.num_peaks = ad.num_peaks],
     dbg |-> (IF FlagSet(flags, SCAN_DISP_PEAKS) THEN <<"peak added">> ELSE <<>>)
             \o ad.dbg,
     adds |-> <<[new_peak |-> new_peak,
                 num_peaks |-> s.num_peaks, peak_buffer |-> s.peak_buffer,
                 num_peaks_after |-> ad.num_peaks, peak_buffer_after |-> ad.peak_buffer]>>]

(* finish_peak with the 1% bump kept only when the peak is accepted *)
finish_peak_bump_on_acceptance(s, peak_threshold, flags) ==
    IF s.current_peak.height * FP * THRESHOLD_SCALING(flags)[2]
           > peak_threshold * THRESHOLD_SCALING(flags)[1]
    THEN accept_peak(s,
                     [s.current_peak EXCEPT !.width =
                         s.current_peak.area \div s.current_peak.height],
                     peak_threshold,
                     add_peak(s.peak_buffer, s.num_peaks,
                              [s.current_peak EXCEPT !.width =
                                  s.current_peak.area \div s.current_peak.height],
                              flags),
                     flags)
    ELSE [s |-> [s EXCEPT !.peak_started = 0], dbg |-> <<>>, adds |-> <<>>]

(* lines 223-245: the peak is complete; peak_threshold is the threshold    *)
(* after its 1% bump                                                       *)
finish_peak(s, peak_threshold, flags) ==
    IF s.current_peak.height * FP * THRESHOLD_SCALING(flags)[2]
           > peak_threshold * THRESHOLD_SCALING(flags)[1]
    THEN accept_peak(s,
                     [s.current_peak EXCEPT !.width =
                         s.current_peak.area \div s.current_peak.height],
                     peak_threshold,
                     add_peak(s.peak_buffer, s.num_peaks,
                              [s.current_peak EXCEPT !.width =
                                  s.current_peak.area \div s.current_peak.height],
                              flags),
                     flags)
    ELSE [s |-> [s EXCEPT !.peak_started = 0, !.peak_threshold = peak_threshold],
          dbg |-> <<>>, adds |-> <<>>]

(* capture_peak with >= for the > of a new maximum *)
capture_peak_last_maximum(s, window_level, flags) ==
    IF ~(s.peak_started /= 0 \/ window_level > 0)
    THEN [s |-> s, dbg |-> <<>>, adds |-> <<>>]
    ELSE IF s.peak_started = 0
    THEN [s |-> [s EXCEPT !.current_peak =
                              [s.current_peak EXCEPT !.filtered_level = s.filtered_level,
                                                     !.time = s.sample_index,
                                                     !.height = window_level,
                                                     !.area = window_level,
                                                     !.filter_hits = 0],
                          !.peak_started = s.peak_started + 1],
          dbg |-> <<>>, adds |-> <<>>]
    ELSE IF window_level >= s.current_peak.height
    THEN [s |-> [s EXCEPT !.current_peak.time = s.sample_index,
                          !.current_peak.height = window_level],
          dbg |-> <<>>, adds |-> <<>>]
    ELSE IF window_level <= 0
    THEN IF s.current_peak.height * FP > s.peak_threshold
         THEN finish_peak(s, MulRatio(s.peak_threshold, 101, 100), flags)
         ELSE [s |-> [s EXCEPT !.peak_started = 0], dbg |-> <<>>, adds |-> <<>>]
    ELSE [s |-> [s EXCEPT !.current_peak.area = s.current_peak.area + window_level],
          dbg |-> <<>>, adds |-> <<>>]

(* Lines 209-249: capture of the transients.  [s, dbg, adds]; adds records *)
(* the call of add_peak, if one was made: the peak, and num_peaks and      *)
(* peak_buffer before and after.                                           *)
capture_peak(s, window_level, flags) ==
    IF ~(s.peak_started /= 0 \/ window_level > 0)
    THEN [s |-> s, dbg |-> <<>>, adds |-> <<>>]
    ELSE IF s.peak_started = 0
    THEN [s |-> [s EXCEPT !.current_peak =
                              [s.current_peak EXCEPT !.filtered_level = s.filtered_level,
                                                     !.time = s.sample_index,
                                                     !.height = window_level,
                                                     !.area = window_level,
                                                     !.filter_hits = 0],
                          !.peak_started = s.peak_started + 1],
          dbg |-> <<>>, adds |-> <<>>]
    ELSE IF window_level > s.current_peak.height
    THEN [s |-> [s EXCEPT !.current_peak.time = s.sample_index,
                          !.current_peak.height = window_level],
          dbg |-> <<>>, adds |-> <<>>]
    ELSE IF window_level <= 0
    THEN IF s.current_peak.height * FP > s.peak_threshold
         THEN finish_peak(s, MulRatio(s.peak_threshold, 101, 100), flags)
         ELSE [s |-> [s EXCEPT !.peak_started = 0], dbg |-> <<>>, adds |-> <<>>]
    ELSE [s |-> [s EXCEPT !.current_peak.area = s.current_peak.area + window_level],
          dbg |-> <<>>, adds |-> <<>>]

(* lines 262-263: the display of the thresholds every 10 seconds *)
threshold_display(sample_index, flags) ==
    IF FlagSet(flags, SCAN_DISP_THRESHOLDS) /\ sample_index % (SAMPLING_RATE * 10) = 0
    THEN <<"peak_threshold">> ELSE <<>>

(* day_loop that starts again from zero *)
day_loop_from_zero(sample_index, num_peaks, peak_started) ==
    IF sample_index > DAY_SAMPLES /\ num_peaks = 0 /\ peak_started = 0
    THEN 0 ELSE sample_index

(* day_loop without the test for a quiet moment *)
day_loop_at_once(sample_index, num_peaks, peak_started) ==
    IF sample_index > DAY_SAMPLES
    THEN sample_index % DAY_SAMPLES ELSE sample_index

(* day_loop that never reduces sample_index *)
day_loop_never(sample_index, num_peaks, peak_started) ==
    sample_index

(* lines 267-268: the 24-hour loop *)
day_loop(sample_index, num_peaks, peak_started) ==
    IF sample_index > DAY_SAMPLES /\ num_peaks = 0 /\ peak_started = 0
    THEN sample_index % DAY_SAMPLES ELSE sample_index

(* analysis_tick without the decay of peak_threshold *)
analysis_tick_no_decay(s, sample_index, cp, flags) ==
    [s |-> [s EXCEPT !.sample_index = day_loop(sample_index, cp.num_peaks, s.peak_started),
                     !.num_peaks = cp.num_peaks,
                     !.peak_buffer = cp.peak_buffer],
     ticked |-> TRUE,
     detections |-> cp.detections,
     dbg |-> cp.dbg \o threshold_display(sample_index, flags),
     tick |-> [sample_index |-> sample_index, flags |-> flags,
               filtered_level |-> s.filtered_level,
               searched |-> cp.searched,
               searched_buffer |-> cp.searched_buffer,
               detections |-> cp.detections,
               num_peaks |-> cp.num_peaks, peak_buffer |-> cp.peak_buffer]]

(* lines 256-268 on a sample that ends an analysis interval, cp being what *)
(* check_peaks did                                                         *)
analysis_tick(s, sample_index, cp, flags) ==
    [s |-> [s EXCEPT !.sample_index = day_loop(sample_index, cp.num_peaks, s.peak_started),
                     !.num_peaks = cp.num_peaks,
                     !.peak_buffer = cp.peak_buffer,
                     !.peak_threshold = MulRatio(s.peak_threshold, 999, 1000)],
     ticked |-> TRUE,
     detections |-> cp.detections,
     dbg |-> cp.dbg \o threshold_display(sample_index, flags),
     tick |-> [sample_index |-> sample_index, flags |-> flags,
               filtered_level |-> s.filtered_level,
               searched |-> cp.searched,
               searched_buffer |-> cp.searched_buffer,
               detections |-> cp.detections,
               num_peaks |-> cp.num_peaks, peak_buffer |-> cp.peak_buffer]]

(* Lines 255-268: the count of the sample, the analysis every 100 ms, the  *)
(* 24-hour loop.  [s, ticked, detections, dbg, tick]; tick records what    *)
(* check_peaks was called on and what it returned.                         *)
analysis(s, flags) ==
    IF (s.sample_index + 1) % ANALYSIS_INTERVAL = 0
    THEN analysis_tick(s, s.sample_index + 1,
                       check_peaks(s.peak_buffer, s.num_peaks, s.sample_index + 1,
                                   s.filtered_level, flags),
                       flags)
    ELSE [s |-> [s EXCEPT !.sample_index =
                     day_loop(s.sample_index + 1, s.num_peaks, s.peak_started)],
          ticked |-> FALSE,
          detections |-> 0,
          dbg |-> threshold_display(s.sample_index + 1, flags),
          tick |-> <<>>]

----------------------------------------------------------------------------
(* scan_audio: the loop *)

(* SelectTaps with the windowed level written ahead of the decorrelated    *)
(* audio                                                                   *)
SelectTaps_window_level_first(taps, flags) ==
       (IF FlagSet(flags, SCAN_OUTP_WINDOW_LEVEL) THEN <<taps[4]>> ELSE <<>>)
    \o (IF FlagSet(flags, SCAN_OUTP_DECORR_AUDIO) THEN <<taps[1]>> ELSE <<>>)
    \o (IF FlagSet(flags, SCAN_OUTP_DECORR_LEVEL) THEN <<taps[2]>> ELSE <<>>)
    \o (IF FlagSet(flags, SCAN_OUTP_NORMAL_AUDIO) THEN <<taps[3]>> ELSE <<>>)
    \o (IF FlagSet(flags, SCAN_OUTP_FILTER_AUDIO) THEN <<taps[5]>> ELSE <<>>)
    \o (IF FlagSet(flags, SCAN_OUTP_FILTER_LEVEL) THEN <<taps[6]>> ELSE <<>>)

(* the values written to out_samples for one sample: the taps the OUTP     *)
(* flags select, in the code's order                                       *)
SelectTaps(taps, flags) ==
       (IF FlagSet(flags, SCAN_OUTP_DECORR_AUDIO) THEN <<taps[1]>> ELSE <<>>)
    \o (IF FlagSet(flags, SCAN_OUTP_DECORR_LEVEL) THEN <<taps[2]>> ELSE <<>>)
    \o (IF FlagSet(flags, SCAN_OUTP_NORMAL_AUDIO) THEN <<taps[3]>> ELSE <<>>)
    \o (IF FlagSet(flags, SCAN_OUTP_WINDOW_LEVEL) THEN <<taps[4]>> ELSE <<>>)
    \o (IF FlagSet(flags, SCAN_OUTP_FILTER_AUDIO) THEN <<taps[5]>> ELSE <<>>)
    \o (IF FlagSet(flags, SCAN_OUTP_FILTER_LEVEL) THEN <<taps[6]>> ELSE <<>>)

(* The signal path replaced by its two results: x = <<window_level,        *)
(* filtered_level>> are taken as this sample's windowed level and bell     *)
(* level, whatever samples produced them.                                  *)
given_levels(s, x) ==
    [s |-> [s EXCEPT !.filtered_level = x[2]],
     window_level |-> x[1],
     taps |-> <<0, 0, 0, x[1], 0, x[2] \div FP>>]

(* pass_result with detections = for detections |= *)
pass_result_assigned(acc, fe, cp, an, has_out, flags) ==
    [s          |-> an.s,
     detections |-> an.detections,
     out        |-> IF has_out THEN acc.out \o SelectTaps(fe.taps, flags) ELSE acc.out,
     dbg        |-> acc.dbg \o cp.dbg \o an.dbg,
     ticks      |-> IF an.ticked THEN Append(acc.ticks, an.tick) ELSE acc.ticks,
     adds       |-> acc.adds \o cp.adds,
     taps       |-> IF has_out THEN Append(acc.taps, fe.taps) ELSE acc.taps]

(* One pass of while (num_samples--).  acc = [s, detections, out, dbg,     *)
(* ticks, adds, taps]: the detector, the local detections, what the call   *)
(* has written to out_samples and logged so far, the record of every       *)
(* check_peaks and add_peak call it has made, and the tap values of its    *)
(* samples.  fe, cp, an: what the signal path, the capture and the         *)
(* analysis of this pass did.                                              *)
pass_result(acc, fe, cp, an, has_out, flags) ==
    [s          |-> an.s,
     detections |-> BitOr(acc.detections, an.detections),
     out        |-> IF has_out THEN acc.out \o SelectTaps(fe.taps, flags) ELSE acc.out,
     dbg        |-> acc.dbg \o cp.dbg \o an.dbg,
     ticks      |-> IF an.ticked THEN Append(acc.ticks, an.tick) ELSE acc.ticks,
     adds       |-> acc.adds \o cp.adds,
     taps       |-> IF has_out THEN Append(acc.taps, fe.taps) ELSE acc.taps]

pass_analysis(acc, fe, cp, has_out, flags) ==
    pass_result(acc, fe, cp, analysis(cp.s, flags), has_out, flags)

pass_capture(acc, fe, has_out, flags) ==
    pass_analysis(acc, fe, capture_peak(fe.s, fe.window_level, flags), has_out, flags)

sample_step(acc, x, front, has_out, flags) ==
    pass_capture(acc,
                 IF front = "pcm" THEN front_end(acc.s, x) ELSE given_levels(acc.s, x),
                 has_out, flags)

(* The passes for in_samples[lo .. hi], in order.  The range is split in   *)
(* halves, and the first half is evaluated (the test on first) before the  *)
(* second starts, which keeps the evaluation shallow.                      *)
RECURSIVE scan_loop(_, _, _, _, _, _, _)
scan_loop(acc, in_samples, lo, hi, front, has_out, flags) ==
    IF lo > hi THEN acc
    ELSE IF lo = hi THEN sample_step(acc, in_samples[lo], front, has_out, flags)
    ELSE LET mid == (lo + hi) \div 2
             first == scan_loop(acc, in_samples, lo, mid, front, has_out, flags)
         IN  IF first.detections >= 0
             THEN scan_loop(first, in_samples, mid + 1, hi, front, has_out, flags)
             ELSE first

(* scan_audio with last_sample an automatic variable, zero at every call *)
ScanAudio_automatic_last_sample(s, in_samples, front, has_out, flags) ==
    scan_loop([s |-> [s EXCEPT !.last_sample = 0], detections |-> 0, out |-> <<>>,
               dbg |-> <<>>, ticks |-> <<>>, adds |-> <<>>, taps |-> <<>>],
              in_samples, 1, Len(in_samples), front, has_out, flags)

(* scan_audio (in_samples, num_samples, out_samples, flags) on detector s: *)
(* [s, detections, out, dbg, ticks, adds, taps]; detections is the return  *)
(* value, taps the six tap values of every sample of a call that has       *)
(* out_samples                                                             *)
ScanAudio(s, in_samples, front, has_out, flags) ==
    scan_loop([s |-> s, detections |-> 0, out |-> <<>>, dbg |-> <<>>, ticks |-> <<>>,
               adds |-> <<>>, taps |-> <<>>],
              in_samples, 1, Len(in_samples), front, has_out, flags)

----------------------------------------------------------------------------
(* The scanner as a state machine *)

VARIABLES
    bell_biquad, current_peak, peak_buffer, sample_window, num_peaks,
    sample_index, filtered_level,          \* the file-scope statics
    decorrelated_level, peak_threshold, peak_started, window_index,
    window_sum, last_sample, weight,       \* the statics of scan_audio
    detections,     \* the value the last scan_audio call returned
    out_samples,    \* what the last scan_audio call wrote to out_samples
    dbg_log,        \* what the last scan_audio call passed to Dbg_printf
    ticks,          \* the check_peaks calls of the last scan_audio call
    adds,           \* the add_peak calls of the last scan_audio call
    call,           \* the arguments of the last scan_audio call
    tap_log,        \* the tap values of each sample of the last call
    history,        \* the result of every check_peaks call so far, in order
    ref,            \* a second detector, fed the same samples with the same
                    \* flags, one sample per scan_audio call
    ref_history,    \* the result of every check_peaks call of ref
    fresh,          \* a third detector: a fresh one, given the calls of
                    \* scan_audio made since the last scan_audio_init
    fresh_history,  \* the result of every check_peaks call of fresh
    history_since_init  \* the part of history since the last scan_audio_init

scan_vars ==
    <<bell_biquad, current_peak, peak_buffer, sample_window, num_peaks,
      sample_index, filtered_level, decorrelated_level, peak_threshold,
      peak_started, window_index, window_sum, last_sample, weight,
      detections, out_samples, dbg_log, ticks, adds, call, tap_log, history, ref,
      ref_history,
      fresh, fresh_history, history_since_init>>

(* waveplayer.c: the microphone ring, the ping-pong buffers and the        *)
(* overload indicator                                                      *)
VARIABLES
    micbuff, mic_head, mic_tail,   \* the microphone ring and its indices
    next_buff,                     \* next output buffer to write
    buff,                          \* buff0 and buff1: what fill_buffer wrote
    clip_timer,                    \* the static of WaveRecorderCallback
    LED5,                          \* the red LED is on
    canned_ptr, canned_audio, canned_samples, samples_since_trigger,
    LED_Toggle, user_mode,         \* the globals of main.c
    playing,                       \* the buffer the DMA plays, -1 before
                                   \* the first Audio_MAL_Play
    main_at,                       \* where WavePlayBack stands
    recorded,       \* the buffer of the last WaveRecorderCallback
    unread,         \* the slots of micbuff written and not yet scanned
    callbacks,      \* the WaveRecorderCallback calls so far
    due,            \* the value of callbacks at which the buffer that
                    \* plays has been played to its end
    refills,        \* fill_buffer calls on each buffer since it was last
                    \* given to Audio_MAL_Play
    plays,          \* the buffers given to Audio_MAL_Play so far, in order,
                    \* each with the fill_buffer calls made on it since
                    \* it was last given
    mishaps         \* what has gone wrong so far, see NoMishap

player_vars ==
    <<micbuff, mic_head, mic_tail, next_buff, buff, clip_timer, LED5, canned_ptr,
      canned_audio, canned_samples, samples_since_trigger, LED_Toggle, user_mode,
      playing, main_at, recorded, unread, callbacks, due, refills, plays, mishaps>>

(* serial.c: the transmit ring of USART2 *)
VARIABLES
    tx_buffer,      \* the ring: the slots written so far, the others hold
                    \* the 0 of a static
    tx_head, tx_tail,   \* the indices of the ring
    TXEIE,          \* the transmit interrupt is enabled (USART_IT_TXE)
    TXE,            \* the data register is empty (USART_FLAG_TXE)
    RXNE,           \* a received character waits, <<>> when none
    main_pc,        \* where the main-context USART2_putchar call stands
    main_c,         \* the character of the main-context call
    isr,            \* where USART2_IRQHandler stands, and the character
                    \* of its USART2_putchar call
    accepted,       \* the characters stored in the ring so far, in order
    sent,           \* the characters written to USART2->DR so far
    called,         \* the main-context USART2_putchar calls so far
    received        \* the characters received so far

serial_vars ==
    <<tx_buffer, tx_head, tx_tail, TXEIE, TXE, RXNE, main_pc, main_c, isr,
      accepted, sent, called, received>>

vars == <<scan_vars, player_vars, serial_vars>>

(* waveplayer.c *)
MIC_BUFFER_SAMPLES == (OUT_BUFFER_SAMPLES * 3) \div 2

(* the samples the recorder hands to WaveRecorderCallback in one call: one *)
(* block of its PDM filter, a millisecond of sound                         *)
PCM_OUT_SIZE == 16

(* serial.c *)
TX_BUFLEN == 8192
TX_BUFMASK == TX_BUFLEN - 1

(* the statics of waveplayer.c and the globals it shares with main.c as    *)
(* the C start-up code leaves them, WavePlayBack not yet past its first    *)
(* loop                                                                    *)
PlayerAtReset ==
    /\ micbuff = [k \in 0 .. MIC_BUFFER_SAMPLES - 1 |-> 0]
    /\ mic_head = 0
    /\ mic_tail = 0
    /\ next_buff = 0
    /\ buff = [b \in 0 .. 1 |-> [canned_audio |-> 0, canned_samples |-> 0]]
    /\ clip_timer = 0
    /\ LED5 = FALSE
    /\ canned_ptr = 1
    /\ canned_audio = 0
    /\ canned_samples = 0
    /\ samples_since_trigger = 0
    /\ LED_Toggle = {}
    /\ user_mode = 0
    /\ playing = -1
    /\ main_at = "prefill"
    /\ recorded = <<>>
    /\ unread = {}
    /\ callbacks = 0
    /\ due = 0
    /\ refills = [b \in 0 .. 1 |-> 0]
    /\ plays = <<>>
    /\ mishaps = {}

(* the transmit ring holding the characters pending, the oldest at         *)
(* tx_tail, no USART2_putchar call under way; the transmit interrupt is    *)
(* enabled and the transmitter busy exactly when the ring holds a          *)
(* character                                                               *)
SerialHolding(tail, pending) ==
    /\ tx_buffer = [k \in {(tail + i - 1) % TX_BUFLEN : i \in 1 .. Len(pending)} |->
                       pending[((k - tail) % TX_BUFLEN) + 1]]
    /\ tx_tail = tail
    /\ tx_head = (tail + Len(pending)) % TX_BUFLEN
    /\ TXEIE = (Len(pending) > 0)
    /\ TXE = (Len(pending) = 0)
    /\ RXNE = <<>>
    /\ main_pc = "idle"
    /\ main_c = 0
    /\ isr = [at |-> "idle", c |-> 0]
    /\ accepted = pending
    /\ sent = <<>>
    /\ called = 0
    /\ received = 0

(* the statics of serial.c as the C start-up code leaves them *)
SerialAtReset == SerialHolding(0, <<>>)

(* the statics, as the record the operators work on *)
Detector ==
    [bell_biquad        |-> bell_biquad,
     current_peak       |-> current_peak,
     peak_buffer        |-> peak_buffer,
     sample_window      |-> sample_window,
     num_peaks          |-> num_peaks,
     sample_index       |-> sample_index,
     filtered_level     |-> filtered_level,
     decorrelated_level |-> decorrelated_level,
     peak_threshold     |-> peak_threshold,
     peak_started       |-> peak_started,
     window_index       |-> window_index,
     window_sum         |-> window_sum,
     last_sample        |-> last_sample,
     weight             |-> weight]

SetStatics(s) ==
    /\ bell_biquad' = s.bell_biquad
    /\ current_peak' = s.current_peak
    /\ peak_buffer' = s.peak_buffer
    /\ sample_window' = s.sample_window
    /\ num_peaks' = s.num_peaks
    /\ sample_index' = s.sample_index
    /\ filtered_level' = s.filtered_level
    /\ decorrelated_level' = s.decorrelated_level
    /\ peak_threshold' = s.peak_threshold
    /\ peak_started' = s.peak_started
    /\ window_index' = s.window_index
    /\ window_sum' = s.window_sum
    /\ last_sample' = s.last_sample
    /\ weight' = s.weight

(* the scanner alone takes a step: the player and the serial port rest *)
SetDetector(s) == SetStatics(s) /\ UNCHANGED <<player_vars, serial_vars>>

(* detector s at its start: nothing returned, written or logged yet *)
StartScanner(s) ==
    /\ bell_biquad = s.bell_biquad
    /\ current_peak = s.current_peak
    /\ peak_buffer = s.peak_buffer
    /\ sample_window = s.sample_window
    /\ num_peaks = s.num_peaks
    /\ sample_index = s.sample_index
    /\ filtered_level = s.filtered_level
    /\ decorrelated_level = s.decorrelated_level
    /\ peak_threshold = s.peak_threshold
    /\ peak_started = s.peak_started
    /\ window_index = s.window_index
    /\ window_sum = s.window_sum
    /\ last_sample = s.last_sample
    /\ weight = s.weight
    /\ detections = 0
    /\ out_samples = <<>>
    /\ dbg_log = <<>>
    /\ ticks = <<>>
    /\ adds = <<>>
    /\ call = [in_samples |-> <<>>, num_samples |-> 0, has_out |-> FALSE, flags |-> 0]
    /\ tap_log = <<>>
    /\ history = <<>>
    /\ ref = s
    /\ ref_history = <<>>
    /\ fresh = InitDetector(PowerOn)
    /\ fresh_history = <<>>
    /\ history_since_init = <<>>

(* the scanner at s, the player and the serial port as after reset *)
StartAt(s) == StartScanner(s) /\ PlayerAtReset /\ SerialAtReset

(* the detections of a sequence of tick records *)
Results(tk) == [i \in 1 .. Len(tk) |-> tk[i].detections]

(* the samples fed to s one scan_audio call each: [s, ticks] *)
RECURSIVE one_by_one(_, _, _, _, _, _)
one_by_one(acc, in_samples, lo, hi, front, flags) ==
    IF lo > hi THEN acc
    ELSE IF lo = hi
    THEN LET r == ScanAudio(acc.s, <<in_samples[lo]>>, front, FALSE, flags)
         IN  [s |-> r.s, ticks |-> acc.ticks \o r.ticks]
    ELSE LET mid == (lo + hi) \div 2
             first == one_by_one(acc, in_samples, lo, mid, front, flags)
         IN  IF first.s.num_peaks >= 0
             THEN one_by_one(first, in_samples, mid + 1, hi, front, flags)
             ELSE first

(* a call of scan_audio (in_samples, Len(in_samples), out_samples, flags); *)
(* has_out: out_samples is not NULL                                        *)
Scan(in_samples, front, has_out, flags) ==
    \E r \in {ScanAudio(Detector, in_samples, front, has_out, flags)} :
        /\ SetDetector(r.s)
        /\ detections' = r.detections
        /\ out_samples' = r.out
        /\ dbg_log' = r.dbg
        /\ ticks' = r.ticks
        /\ adds' = r.adds
        /\ call' = [in_samples |-> in_samples, num_samples |-> Len(in_samples),
                    has_out |-> has_out, flags |-> flags]
        /\ tap_log' = r.taps
        /\ history' = history \o Results(r.ticks)

(* the same samples and flags given to ref, one call per sample *)
ScanRef(in_samples, front, flags) ==
    \E o \in {one_by_one([s |-> ref, ticks |-> <<>>], in_samples, 1, Len(in_samples),
                         front, flags)} :
        /\ ref' = o.s
        /\ ref_history' = ref_history \o Results(o.ticks)

(* the same call made on fresh *)
ScanFresh(in_samples, front, flags) ==
    \E r \in {ScanAudio(fresh, in_samples, front, FALSE, flags)} :
        /\ fresh' = r.s
        /\ fresh_history' = fresh_history \o Results(r.ticks)
        /\ history_since_init' = history_since_init \o Results(ticks')

(* fresh is left alone *)
NoFresh == UNCHANGED <<fresh, fresh_history, history_since_init>>

----------------------------------------------------------------------------
(* The audio path: scan_audio on PCM samples, from the detector as         *)
(* fill_init leaves it                                                     *)

(* the calls explored: a call of at most MaxBatch samples while fewer than *)
(* ShortHorizon samples have been counted, and a recording of three knocks *)
(* up to RecordingEnd                                                      *)
MaxBatch == 2
ShortHorizon == 3
RecordingEnd == 12800

Samples == {-20000, 0, 20000}
ShortBatches == UNION {[1 .. k -> Samples] : k \in 1 .. MaxBatch}

(* a recording of three knocks 150 ms apart in silence: each knock is one  *)
(* loud sample followed by its opposite.  Half a second later a click, one *)
(* loud sample, and two weaker samples that end as the click leaves the    *)
(* window.                                                                 *)
KnockStarts == {2300, 4700, 7100}
ClickStart == 12000
Recording(t) ==
    IF t \in KnockStarts THEN 20000
    ELSE IF t - 1 \in KnockStarts THEN -20000
    ELSE IF t = ClickStart THEN 20000
    ELSE IF t \in {ClickStart + WINDOW_SIZE - 2, ClickStart + WINDOW_SIZE - 1} THEN 3000
    ELSE 0
Chunk(from, n) == [i \in 1 .. n |-> Recording(from + i - 1)]

(* the flags WavePlayBack's fill_buffer passes, in its two modes *)
FirmwareFlags(mode) ==
    (IF (mode \div 2) % 2 = 1 THEN SCAN_HIGH_SENSITIVITY ELSE 0)
    + SCAN_DISP_THRESHOLDS + SCAN_DISP_EVENTS + SCAN_DISP_PEAKS
FlagChoices ==
    {0, SCAN_HIGH_SENSITIVITY, FirmwareFlags(0),
     SCAN_OUTP_DECORR_AUDIO + SCAN_OUTP_WINDOW_LEVEL + SCAN_OUTP_FILTER_LEVEL,
     SCAN_OUTP_DECORR_LEVEL + SCAN_OUTP_NORMAL_AUDIO + SCAN_OUTP_FILTER_AUDIO,
     SCAN_OUTP_DECORR_AUDIO + SCAN_OUTP_DECORR_LEVEL + SCAN_OUTP_NORMAL_AUDIO
         + SCAN_OUTP_WINDOW_LEVEL + SCAN_OUTP_FILTER_AUDIO + SCAN_OUTP_FILTER_LEVEL}

Init == \E s \in {InitDetector(PowerOn)} : StartAt(s)

(* scan_audio_init (), called among the first samples or between two      *)
(* buffers at every second analysis tick; fresh starts again from a fresh  *)
(* detector                                                                *)
scan_audio_init ==
    /\ sample_index < ShortHorizon \/ sample_index % (2 * ANALYSIS_INTERVAL) = 0
    /\ SetDetector(InitDetector(Detector))
    /\ fresh' = InitDetector(PowerOn)
    /\ fresh_history' = <<>>
    /\ history_since_init' = <<>>
    /\ UNCHANGED <<detections, out_samples, dbg_log, ticks, adds, call, tap_log, history,
                   ref, ref_history>>

(* scan_audio on a short batch *)
scan_audio ==
    \E in_samples \in ShortBatches, has_out \in BOOLEAN, flags \in FlagChoices :
        /\ sample_index + Len(in_samples) <= ShortHorizon
        /\ Scan(in_samples, "pcm", has_out, flags)
        /\ ScanFresh(in_samples, "pcm", flags)
        /\ UNCHANGED <<ref, ref_history>>

(* scan_audio on the next buffer of the recording, as fill_buffer calls it *)
scan_recording ==
    /\ sample_index % OUT_BUFFER_SAMPLES = 0
    /\ sample_index + OUT_BUFFER_SAMPLES <= RecordingEnd
    /\ Scan(Chunk(sample_index, OUT_BUFFER_SAMPLES), "pcm", FALSE, FirmwareFlags(0))
    /\ ScanFresh(Chunk(sample_index, OUT_BUFFER_SAMPLES), "pcm", FirmwareFlags(0))
    /\ UNCHANGED <<ref, ref_history>>

Next == scan_audio_init \/ scan_audio \/ scan_recording

Spec == Init /\ [][Next]_vars

----------------------------------------------------------------------------
(* The audio path under two batchings: every call is also made on ref,     *)
(* scan_audio one sample at a time                                         *)

SplitSizes == {1600, 3200}

scan_audio_init_both ==
    /\ sample_index < ShortHorizon
    /\ SetDetector(InitDetector(Detector))
    /\ ref' = InitDetector(ref)
    /\ NoFresh
    /\ UNCHANGED <<detections, out_samples, dbg_log, ticks, adds, call, tap_log, history,
                   ref_history>>

scan_audio_both ==
    \E in_samples \in ShortBatches, has_out \in BOOLEAN, flags \in FlagChoices :
        /\ sample_index + Len(in_samples) <= ShortHorizon
        /\ Scan(in_samples, "pcm", has_out, flags)
        /\ ScanRef(in_samples, "pcm", flags)
        /\ NoFresh

scan_recording_both ==
    \E n \in SplitSizes :
        /\ sample_index % 1600 = 0
        /\ sample_index + n <= RecordingEnd
        /\ Scan(Chunk(sample_index, n), "pcm", FALSE, FirmwareFlags(0))
        /\ ScanRef(Chunk(sample_index, n), "pcm", FirmwareFlags(0))
        /\ NoFresh

NextBatching == scan_audio_init_both \/ scan_audio_both \/ scan_recording_both

SpecBatching == Init /\ [][NextBatching]_vars

----------------------------------------------------------------------------
(* The classifier: scan_audio with the signal path replaced by its two     *)
(* results (given_levels), one sample per call, from detectors whose peak  *)
(* buffer has been filled by earlier audio                                 *)

(* a drawn buffer holds at most MaxDrawn peaks, at most MaxSpecial of them *)
(* other than a plain narrow peak                                          *)
MaxDrawn == 4
MaxSpecial == 1

(* the analysis tick the drawn detectors stand one sample before *)
TickTime == 17 * ANALYSIS_INTERVAL

(* how long before the tick a drawn peak may lie, in samples *)
Offsets == {17000, 9000, 7400, 5000, 4800, 2600, 100}

PlainKind ==
    [height |-> 100, width |-> 1, filter_hits |-> 0, filtered_level |-> 0]
SpecialKinds ==
    {[height |-> 60, width |-> 1, filter_hits |-> 0, filtered_level |-> 0],
     [height |-> 50, width |-> 1, filter_hits |-> 0, filtered_level |-> 0],
     [height |-> 100, width |-> 512, filter_hits |-> 0, filtered_level |-> 0],
     [height |-> 100, width |-> 1, filter_hits |-> 4, filtered_level |-> 0],
     [height |-> 100, width |-> 1, filter_hits |-> 4, filtered_level |-> FP]}

Min2(a, b) == IF a < b THEN a ELSE b

(* a peak of a kind, off samples before tick: it has been through the      *)
(* ticks since its time, and can have gathered no more filter hits         *)
DrawnPeak(tick, off, kind) ==
    [time |-> tick - off, area |-> kind.height * kind.width, width |-> kind.width,
     height |-> kind.height,
     filter_hits |-> Min2(kind.filter_hits, (off - 1) \div ANALYSIS_INTERVAL),
     filtered_level |-> kind.filtered_level]

RECURSIVE Descending(_)
Descending(S) ==
    IF S = {} THEN <<>>
    ELSE <<CHOOSE x \in S : \A y \in S : y <= x>>
         \o Descending(S \ {CHOOSE x \in S : \A y \in S : y <= x})

(* the array peak_buffer holding the peaks at the offsets offs (a          *)
(* sequence, oldest first), kinds giving the kind of the peaks that are    *)
(* not plain                                                               *)
BufferOf(tick, offs, kinds) ==
    [i \in 0 .. MAX_NUM_PEAKS - 1 |->
        IF i < Len(offs)
        THEN DrawnPeak(tick, offs[i + 1],
                       IF offs[i + 1] \in DOMAIN kinds THEN kinds[offs[i + 1]]
                       ELSE PlainKind)
        ELSE ZeroPeak]

DrawnBuffer(tick, T, kinds) == BufferOf(tick, Descending(T), kinds)

(* The buffer can have come about: at every earlier tick, in one of the    *)
(* two modes, the knock search found nothing among the peaks it then held  *)
(* (a detection would have emptied the buffer).                            *)
Admissible(buf, n, tick) ==
    \A k \in 1 .. (2 * KNOCK_MAX_SPAN) \div ANALYSIS_INTERVAL :
        \E flags \in {0, SCAN_HIGH_SENSITIVITY} :
            knock_p1(buf,
                     [num_peaks |-> Cardinality({i \in 0 .. n - 1 :
                                       buf[i].time < tick - k * ANALYSIS_INTERVAL}),
                      detections |-> 0, dbg |-> <<>>],
                     0, tick - k * ANALYSIS_INTERVAL, flags).detections = 0

(* peak_threshold after k quiet ticks, and after the bumps of n peaks *)
RECURSIVE Decayed(_, _)
Decayed(threshold, k) ==
    IF k = 0 THEN threshold
    ELSE Decayed(MulRatio(threshold, 999, 1000), k - 1)

RECURSIVE Bumped(_, _)
Bumped(threshold, n) ==
    IF n = 0 THEN threshold
    ELSE Bumped(MulRatio(threshold, 101, 100), n - 1)

(* the detector that has counted sample_index samples and holds the n      *)
(* peaks of buf; the signal path is as scan_audio_init left it, since      *)
(* given_levels stands for it                                              *)
DrawnDetector(si, buf, n, threshold) ==
    [InitDetector(PowerOn) EXCEPT
        !.sample_index = si,
        !.peak_buffer = buf,
        !.num_peaks = n,
        !.peak_threshold = threshold,
        !.current_peak = IF n = 0 THEN ZeroPeak ELSE [buf[n - 1] EXCEPT !.filter_hits = 0]]

(* one sample before the tick, with the peaks at the offsets T *)
SparseStart(T, kinds) ==
    \E buf \in {DrawnBuffer(TickTime, T, kinds)} :
        \E s \in {DrawnDetector(TickTime - 1, buf, Cardinality(T),
                      Bumped(Decayed(30 * FP, TickTime \div ANALYSIS_INTERVAL - 1),
                             Cardinality(T)))} :
            /\ TRUE \in {Admissible(buf, Cardinality(T), TickTime)}
            /\ StartAt(s)

(* in the middle of an analysis interval, with a buffer that is full or    *)
(* one short of it: peaks two samples apart, of height 120 but for the     *)
(* ones at the indices low, of height 60                                   *)
DenseTime == TickTime + ANALYSIS_INTERVAL \div 2
DenseBuffer(n, low) ==
    [i \in 0 .. MAX_NUM_PEAKS - 1 |->
        IF i < n
        THEN [time |-> DenseTime - 2 * (n - i), area |-> IF i \in low THEN 60 ELSE 120,
              width |-> 1, height |-> IF i \in low THEN 60 ELSE 120,
              filter_hits |-> 0, filtered_level |-> 0]
        ELSE ZeroPeak]
DenseStart(n, low) ==
    \E s \in {DrawnDetector(DenseTime, DenseBuffer(n, low), n,
                  Bumped(Decayed(30 * FP, DenseTime \div ANALYSIS_INTERVAL), n))} :
        StartAt(s)

(* one sample before the tick that ends the 24-hour loop, the threshold    *)
(* decayed to where its decay stalls                                       *)
DayStart(T) ==
    \E s \in {DrawnDetector(DAY_SAMPLES - 1, DrawnBuffer(DAY_SAMPLES, T, <<>>),
                            Cardinality(T), 1000 \div 2)} :
        StartAt(s)

(* the levels of one sample: <<window_level, filtered_level>> *)
LevelSamples ==
    ({-5, 60, 120} \X {50 * FP, 50 * FP + 1}) \cup ({20, 40, 52} \X {50 * FP})
LevelFlags == {0, SCAN_HIGH_SENSITIVITY}

(* the calls explored from the drawn detectors: the one that reaches the   *)
(* tick, three in the middle of the interval, and those around the end of  *)
(* the 24-hour loop                                                        *)
InRun(si) ==
    \/ si = TickTime - 1
    \/ si \in DenseTime .. DenseTime + 2
    \/ si \in DAY_SAMPLES - 1 .. DAY_SAMPLES + 1
    \/ si \in 1 .. 2

InitPeaks ==
    \/ \E T \in {X \in SUBSET Offsets : Cardinality(X) <= MaxDrawn} :
          \E S \in {X \in SUBSET T : Cardinality(X) <= MaxSpecial} :
              \E kinds \in [S -> SpecialKinds] : SparseStart(T, kinds)
    \/ \E n \in {MAX_NUM_PEAKS - 1, MAX_NUM_PEAKS},
          low \in {{}, {0}, {7}, {14}, {3, 9}} : DenseStart(n, low)
    \/ \E T \in {{}, {100}, {25000}} : DayStart(T)

(* scan_audio on one sample whose levels are given *)
scan_levels ==
    \E x \in LevelSamples, flags \in LevelFlags :
        /\ InRun(sample_index)
        /\ Scan(<<x>>, "levels", FALSE, flags)
        /\ NoFresh
        /\ UNCHANGED <<ref, ref_history>>

SpecPeaks == InitPeaks /\ [][scan_levels]_vars

----------------------------------------------------------------------------
(* The scenarios of three knocks: three narrow peaks have been accepted,   *)
(* the first at 2.00 s, the second 0.15 s later, the third a further gap   *)
(* of SecondGaps later, and silence follows                                *)

(* the analysis ticks explored after the third peak *)
ScenarioTicks == 5

ScenarioFirst == 2 * SAMPLING_RATE
KnockGap == (3 * SAMPLING_RATE) \div 20
SecondGaps == {KnockGap, 2639, 2640, 2760, 2880}

(* where the detector stands at the start: half a tick before the tick at  *)
(* 2.40 s, the third peak closed                                           *)
ScenarioStart == ScenarioFirst + 7 * (ANALYSIS_INTERVAL \div 2)
ScenarioEnd == (ScenarioStart \div ANALYSIS_INTERVAL + ScenarioTicks) * ANALYSIS_INTERVAL

ScenarioDetector(d2) ==
    DrawnDetector(ScenarioStart,
                  BufferOf(ScenarioStart,
                           <<ScenarioStart - ScenarioFirst,
                             ScenarioStart - ScenarioFirst - KnockGap,
                             ScenarioStart - ScenarioFirst - KnockGap - d2>>,
                           <<>>),
                  3,
                  Bumped(Decayed(30 * FP, ScenarioStart \div ANALYSIS_INTERVAL), 3))

InitScenario == \E d2 \in SecondGaps : \E s \in {ScenarioDetector(d2)} : StartAt(s)

(* the levels of a sample of silence: an empty window, no bell energy *)
QuietLevels == <<-NORMALIZATION_LEVEL, 0>>
QuietSizes == {ANALYSIS_INTERVAL \div 2, ANALYSIS_INTERVAL}
QuietFlags == {0, SCAN_HIGH_SENSITIVITY}

(* scan_audio on a batch of silence, in either mode *)
scan_quiet ==
    \E n \in QuietSizes, flags \in QuietFlags :
        /\ sample_index + n <= ScenarioEnd
        /\ Scan([i \in 1 .. n |-> QuietLevels], "levels", FALSE, flags)
        /\ NoFresh
        /\ UNCHANGED <<ref, ref_history>>

SpecScenario == InitScenario /\ [][scan_quiet]_vars

----------------------------------------------------------------------------
(* Silence: scan_audio on batches of zero samples, from the detector as    *)
(* scan_audio_init leaves it and from the detector that long silences      *)
(* have since led to                                                       *)

(* the analysis ticks explored from each start *)
SilenceTicks == 3

(* the ticks of silence that went before: none, two seconds, five minutes, *)
(* and one tick less than 24 hours                                         *)
RestTicks == 3000
SilentStarts == {0, 20, RestTicks, DAY_SAMPLES \div ANALYSIS_INTERVAL - 1}

(* where the decay of peak_threshold comes to rest: the largest value at   *)
(* or below the initial one that a tick leaves as it is.  The product of a *)
(* tick never takes a value from above a resting value to below it, so the *)
(* decay from the initial value ends here, after 2615 ticks.               *)
RestingThreshold ==
    CHOOSE x \in 1 .. PowerOn.peak_threshold :
        /\ MulRatio(x, 999, 1000) = x
        /\ \A y \in x + 1 .. PowerOn.peak_threshold : MulRatio(y, 999, 1000) < y

(* the detector after k ticks of silence from scan_audio_init: nothing but *)
(* sample_index, peak_threshold and decorrelated_level, which is at rest   *)
(* at 0.5 after 0.7 s of silence, has changed                              *)
SilentDetector(k) ==
    [InitDetector(PowerOn) EXCEPT
        !.sample_index = k * ANALYSIS_INTERVAL,
        !.peak_threshold = IF k >= RestTicks THEN RestingThreshold ELSE Decayed(@, k),
        !.decorrelated_level = IF k = 0 THEN @ ELSE FP \div 2]

InitSilence == \E k \in SilentStarts : \E s \in {SilentDetector(k)} : StartAt(s)

SilenceSizes == {ANALYSIS_INTERVAL \div 4, ANALYSIS_INTERVAL \div 2}
SilenceFlags == {0, SCAN_HIGH_SENSITIVITY, FirmwareFlags(0)}

(* whether sample_index is within SilenceTicks ticks of one of the starts *)
InSilence(si, n) ==
    \E k \in SilentStarts :
        /\ si >= k * ANALYSIS_INTERVAL
        /\ si + n <= (k + SilenceTicks) * ANALYSIS_INTERVAL

scan_silence ==
    \E n \in SilenceSizes, flags \in SilenceFlags :
        /\ InSilence(sample_index, n)
        /\ Scan([i \in 1 .. n |-> 0], "pcm", FALSE, flags)
        /\ NoFresh
        /\ UNCHANGED <<ref, ref_history>>

SpecSilence == InitSilence /\ [][scan_silence]_vars

----------------------------------------------------------------------------
(* The 24-hour loop: scan_audio on given levels around the end of the day, *)
(* one sample per call, and the rest of the analysis interval in one call  *)

(* the samples explored past the end of the day and past a late reduction *)
DayRun == 3

(* the tick at which a peak from 100 samples before the end of the day     *)
(* expires                                                                 *)
LateTick == 2 * KNOCK_MAX_SPAN

(* quiet two samples before the end of the day, after a silent day or      *)
(* after a day that has left peak_threshold where it started               *)
QuietDayStart(threshold) ==
    \E s \in {DrawnDetector(DAY_SAMPLES - 2, BufferOf(DAY_SAMPLES, <<>>, <<>>), 0,
                            threshold)} :
        StartAt(s)

(* a peak accepted 100 samples before the end of the day and silence       *)
(* since, two samples before the tick that expires it                      *)
BusyDayStart ==
    \E s \in {DrawnDetector(DAY_SAMPLES + LateTick - 2,
                            BufferOf(DAY_SAMPLES + LateTick - 2, <<LateTick + 98>>, <<>>),
                            1, RestingThreshold)} :
        StartAt(s)

InitDay ==
    \/ \E threshold \in {RestingThreshold, PowerOn.peak_threshold} :
          QuietDayStart(threshold)
    \/ BusyDayStart

DayLevels == {-5, 20, 60} \X {0}

(* whether a sample at sample_index is one of those explored: from two     *)
(* samples before the end of the day or the late tick to DayRun after it,  *)
(* counted on either side of the reduction                                 *)
InDay(si) ==
    \/ si % DAY_SAMPLES >= DAY_SAMPLES - 2
    \/ si % DAY_SAMPLES < DayRun
    \/ /\ si % DAY_SAMPLES >= LateTick - 2
       /\ si % DAY_SAMPLES < LateTick + DayRun

scan_day ==
    \E x \in DayLevels :
        /\ InDay(sample_index)
        /\ Scan(<<x>>, "levels", FALSE, 0)
        /\ NoFresh
        /\ UNCHANGED <<ref, ref_history>>

(* the silent rest of the analysis interval in one call *)
scan_rest ==
    /\ sample_index % DAY_SAMPLES \in {DayRun, LateTick + DayRun}
    /\ Scan([i \in 1 .. ANALYSIS_INTERVAL - (sample_index % ANALYSIS_INTERVAL) |-> QuietLevels],
            "levels", FALSE, 0)
    /\ NoFresh
    /\ UNCHANGED <<ref, ref_history>>

NextDay == scan_day \/ scan_rest
SpecDay == InitDay /\ [][NextDay]_vars

----------------------------------------------------------------------------
(* The expiry of the peaks: scan_audio on whole analysis intervals of      *)
(* given levels, quiet or with one narrow peak, until every peak has had   *)
(* the time to expire                                                      *)

(* the analysis intervals in which a further peak may come *)
PeakTicks == 1

(* the peaks buffered at the start, as offsets before the first tick *)
ExpiryStarts == {{}, {100}, {17000, 100}, {5000, 4800, 100}, {17000, 9000, 2600}}

InitExpiry == \E T \in ExpiryStarts : SparseStart(T, <<>>)

(* the last peak comes before TickTime + (PeakTicks + 1) intervals, and is *)
(* expired at the first tick more than 2 * KNOCK_MAX_SPAN samples later    *)
ExpiryEnd ==
    TickTime + (PeakTicks + 2 + (2 * KNOCK_MAX_SPAN) \div ANALYSIS_INTERVAL) * ANALYSIS_INTERVAL

(* an interval of silence but for one sample of window_level 100 *)
IntervalWithPeak ==
    [i \in 1 .. ANALYSIS_INTERVAL |->
        IF i = ANALYSIS_INTERVAL \div 2 THEN <<100, 0>> ELSE QuietLevels]

scan_quiet_interval ==
    /\ sample_index < ExpiryEnd
    /\ Scan([i \in 1 .. ANALYSIS_INTERVAL |-> QuietLevels], "levels", FALSE, 0)
    /\ NoFresh
    /\ UNCHANGED <<ref, ref_history>>

scan_peak_interval ==
    /\ sample_index < TickTime + PeakTicks * ANALYSIS_INTERVAL
    /\ Scan(IntervalWithPeak, "levels", FALSE, 0)
    /\ NoFresh
    /\ UNCHANGED <<ref, ref_history>>

NextExpiry == scan_quiet_interval \/ scan_peak_interval

SpecExpiry == InitExpiry /\ [][NextExpiry]_vars

----------------------------------------------------------------------------
(* Ringing: whole analysis intervals of a steady bell level, after a peak  *)
(* captured in the first interval                                          *)

(* the analysis intervals explored after the one of the peak: the tick of  *)
(* the last one comes more than SAMPLING_RATE samples after the peak       *)
BellTicks == 11

(* the bell level at the opening sample of the peak, and in the intervals  *)
(* after it: 251 is above twice 100 plus 50, 50 is not above twice 0 plus  *)
(* 50                                                                      *)
BellPeakLevels == {0, 100 * FP}
BellLevels == {50 * FP, 251 * FP}

InitBell == SparseStart({}, <<>>)

(* an interval of silence but for one sample of window_level 100, the bell *)
(* level b0 at that sample                                                 *)
BellIntervalWithPeak(b0) ==
    [i \in 1 .. ANALYSIS_INTERVAL |->
        IF i = ANALYSIS_INTERVAL \div 2 THEN <<100, b0>> ELSE QuietLevels]

scan_bell_peak ==
    \E b0 \in BellPeakLevels :
        /\ sample_index = TickTime - 1
        /\ Scan(BellIntervalWithPeak(b0), "levels", FALSE, 0)
        /\ NoFresh
        /\ UNCHANGED <<ref, ref_history>>

scan_bell_interval ==
    \E b \in BellLevels :
        /\ sample_index >= TickTime + ANALYSIS_INTERVAL - 1
        /\ sample_index < TickTime + (BellTicks + 1) * ANALYSIS_INTERVAL - 1
        /\ Scan([i \in 1 .. ANALYSIS_INTERVAL |-> <<-NORMALIZATION_LEVEL, b>>],
                "levels", FALSE, 0)
        /\ NoFresh
        /\ UNCHANGED <<ref, ref_history>>

NextBell == scan_bell_peak \/ scan_bell_interval

SpecBell == InitBell /\ [][NextBell]_vars

----------------------------------------------------------------------------
(* The decorrelator at full scale: scan_audio on single samples at and     *)
(* next to the ends of the 16-bit range, from power on                     *)

(* the samples explored *)
DecorrelatorRun == 4

ExtremeSamples == {-32768, -1, 0, 1, 32767}

scan_extreme ==
    \E x \in ExtremeSamples :
        /\ sample_index < DecorrelatorRun
        /\ Scan(<<x>>, "pcm", TRUE, SCAN_OUTP_DECORR_AUDIO)
        /\ NoFresh
        /\ UNCHANGED <<ref, ref_history>>

SpecDecorrelator == Init /\ [][scan_extreme]_vars

----------------------------------------------------------------------------
(* Loud samples after a long silence: scan_audio on single samples at full *)
(* scale, from a detector whose decorrelated_level has decayed             *)

(* the samples explored *)
LoudRun == 4

(* two seconds of silence; in single precision decorrelated_level goes on  *)
(* decaying far below the 0.5 at which the fixed point rests: where it has *)
(* got to is drawn, 0.5 or the smallest positive level                     *)
LoudStart == 20 * ANALYSIS_INTERVAL + ANALYSIS_INTERVAL \div 2
DecayedLevels == {1, FP \div 2}

InitLoud ==
    \E level \in DecayedLevels :
        \E s \in {[SilentDetector(20) EXCEPT !.sample_index = LoudStart,
                                             !.decorrelated_level = level]} :
            StartAt(s)

LoudSamples == {-32768, 0, 20000, 32767}

scan_loud ==
    \E x \in LoudSamples :
        /\ sample_index < LoudStart + LoudRun
        /\ Scan(<<x>>, "pcm", TRUE, SCAN_OUTP_NORMAL_AUDIO + SCAN_OUTP_WINDOW_LEVEL)
        /\ NoFresh
        /\ UNCHANGED <<ref, ref_history>>

SpecLoud == InitLoud /\ [][scan_loud]_vars

----------------------------------------------------------------------------
(* The end of the range of sample_index: scan_audio on given levels, one   *)
(* sample per call, 37 hours into a stream that has held a peak in the     *)
(* buffer at every sample since the end of the first day                   *)

(* the largest value of an int *)
INT_MAX == 2147483647

(* the samples explored *)
LongRun == 5

InitLongRun ==
    \E s \in {DrawnDetector(INT_MAX - LongRun,
                  BufferOf(INT_MAX - LongRun, <<100>>, <<>>), 1, RestingThreshold)} :
        StartAt(s)

scan_long ==
    \E x \in DayLevels :
        /\ sample_index < INT_MAX
        /\ Scan(<<x>>, "levels", FALSE, 0)
        /\ NoFresh
        /\ UNCHANGED <<ref, ref_history>>

SpecLongRun == InitLongRun /\ [][scan_long]_vars

----------------------------------------------------------------------------
(* The two modes on one stream: whole analysis intervals given to the      *)
(* detector in normal mode and to ref in high-sensitivity mode.  The       *)
(* stream holds three pulses 2400 samples apart, each of window_level 50   *)
(* or 100, and may hold weaker pulses between and after them.              *)

(* the analysis intervals explored: the tick of the last one is the first  *)
(* past the post-roll of the three pulses                                  *)
ModesRun == 6

(* the interval sample_index lies in, counted from the start *)
ModesInterval(si) == (si - (TickTime - 1)) \div ANALYSIS_INTERVAL

(* where in interval k one of the three pulses lies, and where a weaker    *)
(* pulse may lie (0: nowhere)                                              *)
KnockPosition(k) ==
    IF k = 0 THEN 400 ELSE IF k = 1 THEN 1200 ELSE IF k = 3 THEN 400 ELSE 0
ExtraPosition(k) ==
    IF k = 0 THEN 1200 ELSE IF k \in {2, 4} THEN 800 ELSE 0
KnockHeights(k) == IF KnockPosition(k) > 0 THEN {50, 100} ELSE {0}
ExtraHeights(k) ==
    IF k = 2 THEN {0, 40, 60} ELSE IF ExtraPosition(k) > 0 THEN {0, 40} ELSE {0}

ModesLevels(k, h, e) ==
    [i \in 1 .. ANALYSIS_INTERVAL |->
        IF i = KnockPosition(k) THEN <<h, 0>>
        ELSE IF i = ExtraPosition(k) /\ e > 0 THEN <<e, 0>>
        ELSE QuietLevels]

InitModes == SparseStart({}, <<>>)

scan_modes ==
    \E h \in KnockHeights(ModesInterval(sample_index)),
       e \in ExtraHeights(ModesInterval(sample_index)) :
        /\ ModesInterval(sample_index) < ModesRun
        /\ Scan(ModesLevels(ModesInterval(sample_index), h, e), "levels", FALSE, 0)
        /\ ScanRef(ModesLevels(ModesInterval(sample_index), h, e), "levels",
                   SCAN_HIGH_SENSITIVITY)
        /\ NoFresh

SpecModes == InitModes /\ [][scan_modes]_vars

----------------------------------------------------------------------------
(* The player of waveplayer.c: WaveRecorderCallback stores the microphone  *)
(* samples in micbuff, WavePlayBack scans them with fill_buffer and fills  *)
(* the two output buffers, which the DMA plays in turn and hands back      *)
(* through EVAL_AUDIO_TransferComplete_CallBack                            *)

(* canned_clips, the last entry its terminator; canned_ptr is an index *)
canned_clips ==
    <<[start_sample |-> 3840, num_samples |-> 78080],
      [start_sample |-> 81920, num_samples |-> 94080],
      [start_sample |-> 176000, num_samples |-> 78400],
      [start_sample |-> 254400, num_samples |-> 52640],
      [start_sample |-> 307040, num_samples |-> 99360],
      [start_sample |-> 406400, num_samples |-> 48000],
      [start_sample |-> 0, num_samples |-> 0]>>

(* WavePlayBack has a step to take: it is not held in one of its loops *)
MainCanStep ==
    \/ main_at = "prefill" /\ ~(mic_head < (MIC_BUFFER_SAMPLES * 2) \div 3)
    \/ main_at \in {"first fill", "start", "fill0", "fill1"}
    \/ main_at = "wait1" /\ next_buff # 1
    \/ main_at = "wait0" /\ next_buff # 0

(* WaveRecorderCallback (buffer, num_samples) *)
WaveRecorderCallback(buffer, num_samples) ==
    \E clip \in {\E i \in 1 .. num_samples : buffer[i] >= 32700 \/ buffer[i] <= -32700} :
        /\ micbuff' = [k \in DOMAIN micbuff |->
                          IF k >= mic_head /\ k < mic_head + num_samples
                          THEN buffer[k - mic_head + 1] ELSE micbuff[k]]
        /\ mic_head' = IF mic_head + num_samples >= MIC_BUFFER_SAMPLES THEN 0
                       ELSE mic_head + num_samples
        /\ LED5' = IF clip_timer # 0
                   THEN (IF clip_timer - 1 = 0 THEN FALSE ELSE LED5)
                   ELSE IF clip THEN TRUE ELSE LED5
        /\ clip_timer' = IF clip THEN 50
                         ELSE IF clip_timer # 0 THEN clip_timer - 1 ELSE 0
        /\ recorded' = buffer
        /\ unread' = unread \cup (mic_head .. mic_head + num_samples - 1)
        /\ callbacks' = callbacks + 1
        /\ mishaps' = mishaps
              \cup (IF (mic_head .. mic_head + num_samples - 1) \cap unread # {}
                    THEN {"overwritten"} ELSE {})
              \cup (IF ~MainCanStep THEN {}
                    ELSE IF playing = -1 THEN {"late start"} ELSE {"behind"})
        /\ UNCHANGED <<mic_tail, next_buff, buff, canned_ptr, canned_audio,
                       canned_samples, samples_since_trigger, LED_Toggle, user_mode,
                       playing, main_at, due, refills, plays>>
        /\ UNCHANGED <<scan_vars, serial_vars>>

(* Audio_MAL_Play with a DMA that takes one recorder call longer for the   *)
(* buffer than the recorder for as many samples                            *)
Audio_MAL_Play_slower(b) ==
    /\ playing' = b
    /\ due' = callbacks + (OUT_BUFFER_SAMPLES \div 2) \div PCM_OUT_SIZE + 1
    /\ plays' = Append(plays, [buffer |-> b, refills |-> refills[b]])
    /\ refills' = [refills EXCEPT ![b] = 0]

(* Audio_MAL_Play on buff0 (b = 0) or buff1 (b = 1): the DMA plays its     *)
(* OUT_BUFFER_SAMPLES / 2 stereo samples while the recorder, at the same   *)
(* sample rate, makes as many mono samples                                 *)
Audio_MAL_Play(b) ==
    /\ playing' = b
    /\ due' = callbacks + (OUT_BUFFER_SAMPLES \div 2) \div PCM_OUT_SIZE
    /\ plays' = Append(plays, [buffer |-> b, refills |-> refills[b]])
    /\ refills' = [refills EXCEPT ![b] = 0]

(* EVAL_AUDIO_TransferComplete_CallBack with the two buffers exchanged *)
EVAL_AUDIO_TransferComplete_CallBack_exchanged ==
    /\ IF next_buff = 0
       THEN playing' = 1 /\ next_buff' = 1
            /\ plays' = Append(plays, [buffer |-> 1, refills |-> refills[1]])
            /\ refills' = [refills EXCEPT ![1] = 0]
       ELSE playing' = 0 /\ next_buff' = 0
            /\ plays' = Append(plays, [buffer |-> 0, refills |-> refills[0]])
            /\ refills' = [refills EXCEPT ![0] = 0]
    /\ due' = callbacks + (OUT_BUFFER_SAMPLES \div 2) \div PCM_OUT_SIZE
    /\ mishaps' = mishaps \cup (IF MainCanStep THEN {"unready"} ELSE {})
    /\ UNCHANGED <<micbuff, mic_head, mic_tail, buff, clip_timer, LED5, canned_ptr,
                   canned_audio, canned_samples, samples_since_trigger, LED_Toggle,
                   user_mode, main_at, recorded, unread, callbacks>>
    /\ UNCHANGED <<scan_vars, serial_vars>>

(* EVAL_AUDIO_TransferComplete_CallBack *)
EVAL_AUDIO_TransferComplete_CallBack ==
    /\ IF next_buff = 0
       THEN Audio_MAL_Play(0) /\ next_buff' = 1
       ELSE Audio_MAL_Play(1) /\ next_buff' = 0
    /\ mishaps' = mishaps \cup (IF MainCanStep THEN {"unready"} ELSE {})
    /\ UNCHANGED <<micbuff, mic_head, mic_tail, buff, clip_timer, LED5, canned_ptr,
                   canned_audio, canned_samples, samples_since_trigger, LED_Toggle,
                   user_mode, main_at, recorded, unread, callbacks>>
    /\ UNCHANGED <<scan_vars, serial_vars>>

(* the first loop of fill_buffer: the scan_audio calls on count samples    *)
(* from tail, the slots they read and mic_tail after them                  *)
RECURSIVE fill_scan(_, _, _)
fill_scan(acc, count, flags) ==
    IF count = 0 THEN acc
    ELSE LET samples_to_scan == IF acc.mic_tail + count > MIC_BUFFER_SAMPLES
                                THEN MIC_BUFFER_SAMPLES - acc.mic_tail ELSE count
             s == IF acc.calls = <<>> THEN Detector ELSE acc.calls[Len(acc.calls)].s
             in_samples == [i \in 1 .. samples_to_scan |-> micbuff[acc.mic_tail + i - 1]]
         IN  fill_scan([calls |-> Append(acc.calls,
                                     ScanAudio(s, in_samples, "pcm", FALSE, flags)),
                        inputs |-> Append(acc.inputs, in_samples),
                        read |-> acc.read
                                 \cup (acc.mic_tail .. acc.mic_tail + samples_to_scan - 1),
                        mic_tail |-> IF acc.mic_tail + samples_to_scan >= MIC_BUFFER_SAMPLES
                                     THEN 0 ELSE acc.mic_tail + samples_to_scan],
                       count - samples_to_scan, flags)

(* the detections of the calls, ORed *)
RECURSIVE OrOf(_)
OrOf(calls) ==
    IF calls = <<>> THEN 0
    ELSE BitOr(calls[1].detections, OrOf(Tail(calls)))

(* the results of the analysis ticks of the calls, in order *)
RECURSIVE ResultsOf(_)
ResultsOf(calls) ==
    IF calls = <<>> THEN <<>>
    ELSE Results(calls[1].ticks) \o ResultsOf(Tail(calls))

(* fill_buffer (buffer, num_samples) on buff0 (b = 0) or buff1 (b = 1);    *)
(* what is written to the buffer is kept as the place in the canned audio  *)
(* and the number of canned samples, each written twice, before the zeros  *)
fill_buffer(b, num_samples) ==
    \E f \in {fill_scan([calls |-> <<>>, inputs |-> <<>>, read |-> {},
                         mic_tail |-> mic_tail],
                        num_samples \div 2, FirmwareFlags(user_mode))} :
    \E detection \in {OrOf(f.calls)} :
    \E trigger \in {detection # 0 /\ canned_samples = 0} :
    \E one_bark \in {user_mode % 2 = 1} :
    \E available \in {IF ~trigger THEN canned_samples
                      ELSE IF one_bark THEN 8000
                      ELSE canned_clips[canned_ptr].num_samples} :
    \E from \in {IF ~trigger THEN canned_audio
                 ELSE IF one_bark THEN 68464
                 ELSE canned_clips[canned_ptr].start_sample} :
    \E written \in {IF available < num_samples \div 2 THEN available
                    ELSE num_samples \div 2} :
    \E since \in {IF trigger THEN 0 ELSE samples_since_trigger} :
    \E toggle \in {IF trigger
                   THEN (LED_Toggle \ {"GREEN_TOGGLE"}) \cup {"ORANGE_TOGGLE", "GREEN_OFF"}
                   ELSE LED_Toggle} :
    \E last \in {f.calls[Len(f.calls)]} :
        /\ SetStatics(last.s)
        /\ detections' = last.detections
        /\ out_samples' = last.out
        /\ dbg_log' = last.dbg
        /\ ticks' = last.ticks
        /\ adds' = last.adds
        /\ call' = [in_samples |-> f.inputs[Len(f.inputs)],
                    num_samples |-> Len(f.inputs[Len(f.inputs)]),
                    has_out |-> FALSE, flags |-> FirmwareFlags(user_mode)]
        /\ tap_log' = last.taps
        /\ history' = history \o ResultsOf(f.calls)
        /\ UNCHANGED <<ref, ref_history, fresh, fresh_history, history_since_init>>
        /\ mic_tail' = f.mic_tail
        /\ unread' = unread \ f.read
        /\ mishaps' = mishaps \cup (IF f.read \subseteq unread THEN {} ELSE {"stale"})
        /\ buff' = [buff EXCEPT ![b] = [canned_audio |-> from, canned_samples |-> written]]
        /\ canned_audio' = from + written
        /\ canned_samples' = available - written
        /\ LED_Toggle' =
              IF written > 0 /\ available - written = 0
              THEN (toggle \ {"ORANGE_TOGGLE"}) \cup {"GREEN_TOGGLE", "ORANGE_OFF"}
              ELSE toggle
        /\ samples_since_trigger' =
              IF available - written = 0 /\ detection = 0
              THEN since + num_samples \div 2 ELSE since
        /\ canned_ptr' =
              IF available - written = 0 /\ detection = 0
                 /\ since + num_samples \div 2 > 16000 * 60
              THEN 1
              ELSE IF trigger /\ ~one_bark
              THEN (IF canned_clips[canned_ptr + 1].num_samples = 0 THEN 1
                    ELSE canned_ptr + 1)
              ELSE canned_ptr
        /\ refills' = [refills EXCEPT ![b] = @ + 1]

(* WavePlayBack, from one of its loops to the next or through one call of  *)
(* fill_buffer; at "first fill", "fill0" and "fill1" it is inside          *)
(* fill_buffer                                                             *)
WavePlayBack ==
    \/ /\ main_at = "prefill"
       /\ ~(mic_head < (MIC_BUFFER_SAMPLES * 2) \div 3)
       /\ main_at' = "first fill"
       /\ UNCHANGED <<micbuff, mic_head, mic_tail, next_buff, buff, clip_timer, LED5,
                      canned_ptr, canned_audio, canned_samples, samples_since_trigger,
                      LED_Toggle, user_mode, playing, recorded, unread, callbacks, due,
                      refills, plays, mishaps>>
       /\ UNCHANGED <<scan_vars, serial_vars>>
    \/ /\ main_at = "first fill"
       /\ fill_buffer(1, OUT_BUFFER_SAMPLES)
       /\ main_at' = "start"
       /\ UNCHANGED <<micbuff, mic_head, next_buff, clip_timer, LED5, user_mode, playing,
                      recorded, callbacks, due, plays>>
       /\ UNCHANGED serial_vars
    \/ /\ main_at = "start"
       /\ Audio_MAL_Play(0)
       /\ next_buff' = 1
       /\ LED_Toggle' = {"GREEN_TOGGLE"}
       /\ main_at' = "wait1"
       /\ UNCHANGED <<micbuff, mic_head, mic_tail, buff, clip_timer, LED5, canned_ptr,
                      canned_audio, canned_samples, samples_since_trigger, user_mode,
                      recorded, unread, callbacks, mishaps>>
       /\ UNCHANGED <<scan_vars, serial_vars>>
    \/ /\ main_at \in {"wait1", "wait0"}
       /\ next_buff # (IF main_at = "wait1" THEN 1 ELSE 0)
       /\ main_at' = IF main_at = "wait1" THEN "fill0" ELSE "fill1"
       /\ UNCHANGED <<micbuff, mic_head, mic_tail, next_buff, buff, clip_timer, LED5,
                      canned_ptr, canned_audio, canned_samples, samples_since_trigger,
                      LED_Toggle, user_mode, playing, recorded, unread, callbacks, due,
                      refills, plays, mishaps>>
       /\ UNCHANGED <<scan_vars, serial_vars>>
    \/ /\ main_at \in {"fill0", "fill1"}
       /\ fill_buffer(IF main_at = "fill0" THEN 0 ELSE 1, OUT_BUFFER_SAMPLES)
       /\ main_at' = IF main_at = "fill0" THEN "wait0" ELSE "wait1"
       /\ UNCHANGED <<micbuff, mic_head, next_buff, clip_timer, LED5, user_mode, playing,
                      recorded, callbacks, due, plays>>
       /\ UNCHANGED serial_vars

(* the recorder alone: WavePlayBack is held up before its first loop.  A   *)
(* block the recorder hands over is one unit short of clipping, or, in the *)
(* first calls and again some 50 calls later, holds one clipped sample     *)
OverloadRun == 110
LoudCalls == (0 .. 2) \cup (48 .. 53)
OverloadSamples == {32699, -32700}
OverloadBlock(x) == [i \in 1 .. PCM_OUT_SIZE |-> IF i = 1 THEN x ELSE 0]

record_overload ==
    \E x \in OverloadSamples :
        /\ callbacks < OverloadRun
        /\ x = -32700 => callbacks \in LoudCalls
        /\ WaveRecorderCallback(OverloadBlock(x), PCM_OUT_SIZE)

SpecOverload == Init /\ [][record_overload]_vars

(* the player on the recording: the recorder hands over the recording      *)
(* block by block, the DMA has played a buffer to its end after as many    *)
(* samples have been recorded as it holds, and WavePlayBack takes its      *)
(* steps at any time between                                               *)
PlayerRun == 24

record_mic ==
    /\ callbacks < PlayerRun
    /\ playing = -1 \/ callbacks < due
    /\ WaveRecorderCallback(Chunk(callbacks * PCM_OUT_SIZE, PCM_OUT_SIZE), PCM_OUT_SIZE)

transfer_complete ==
    /\ playing # -1
    /\ callbacks = due
    /\ EVAL_AUDIO_TransferComplete_CallBack

NextPlayer == record_mic \/ transfer_complete \/ WavePlayBack

SpecPlayer == Init /\ [][NextPlayer]_vars

----------------------------------------------------------------------------
(* The serial port of serial.c: USART2_putchar called from the main        *)
(* context, and USART2_IRQHandler, which sends from the ring and echoes a  *)
(* received character with a USART2_putchar call of its own.  The handler  *)
(* interrupts the main context anywhere but between __disable_irq and      *)
(* __enable_irq, and is not interrupted itself.                            *)

(* ((head + 1) & TX_BUFMASK) == tail *)
RingFull(head, tail) == (head + 1) % TX_BUFLEN = tail

(* tx_buffer [tx_head] = c; tx_head = (tx_head + 1) & TX_BUFMASK *)
ring_store(c) ==
    /\ tx_buffer' = [k \in DOMAIN tx_buffer \cup {tx_head} |->
                        IF k = tx_head THEN c ELSE tx_buffer[k]]
    /\ tx_head' = (tx_head + 1) % TX_BUFLEN
    /\ accepted' = Append(accepted, c)

(* USART2_putchar (main_c) in the main context: out of its loop, through   *)
(* the statements between __disable_irq and __enable_irq, and, the ring    *)
(* found empty there, through the USART_ITConfig call                      *)
USART2_putchar ==
    /\ isr.at = "idle"
    /\ \/ /\ main_pc = "loop"
          /\ ~RingFull(tx_head, tx_tail)
          /\ main_pc' = "store"
          /\ UNCHANGED <<tx_buffer, tx_head, accepted, TXEIE>>
       \/ /\ main_pc = "store"
          /\ ring_store(main_c)
          /\ main_pc' = IF tx_head = tx_tail THEN "enable" ELSE "idle"
          /\ UNCHANGED TXEIE
       \/ /\ main_pc = "enable"
          /\ TXEIE' = TRUE
          /\ main_pc' = "idle"
          /\ UNCHANGED <<tx_buffer, tx_head, accepted>>
    /\ UNCHANGED <<tx_tail, TXE, RXNE, main_c, isr, sent, called, received>>
    /\ UNCHANGED <<scan_vars, player_vars>>

(* USART2_IRQHandler, entered on a transmit or a receive interrupt: to its *)
(* end, or into the loop of its USART2_putchar call, and from that loop to *)
(* its end                                                                 *)
USART2_IRQHandler ==
    /\ \/ isr.at = "idle" /\ ((TXEIE /\ TXE) \/ RXNE # <<>>)
       \/ isr.at = "loop"
    /\ \E sending \in {isr.at = "idle" /\ TXEIE /\ TXE} :
       \E tail \in {IF sending THEN (tx_tail + 1) % TX_BUFLEN ELSE tx_tail} :
       \E enabled \in {IF sending /\ tail = tx_head THEN FALSE ELSE TXEIE} :
       \E echo \in {IF isr.at = "loop" THEN <<isr.c>> ELSE RXNE} :
           /\ tx_tail' = tail
           /\ sent' = IF sending
                      THEN Append(sent, IF tx_tail \in DOMAIN tx_buffer
                                        THEN tx_buffer[tx_tail] ELSE 0)
                      ELSE sent
           /\ TXE' = IF sending THEN FALSE ELSE TXE
           /\ RXNE' = IF isr.at = "idle" THEN <<>> ELSE RXNE
           /\ IF echo = <<>>
              THEN /\ isr' = [at |-> "idle", c |-> 0]
                   /\ TXEIE' = enabled
                   /\ UNCHANGED <<tx_buffer, tx_head, accepted>>
              ELSE IF RingFull(tx_head, tail)
              THEN /\ isr' = [at |-> "loop", c |-> echo[1]]
                   /\ TXEIE' = enabled
                   /\ UNCHANGED <<tx_buffer, tx_head, accepted>>
              ELSE /\ ring_store(echo[1])
                   /\ TXEIE' = (enabled \/ tx_head = tail)
                   /\ isr' = [at |-> "idle", c |-> 0]
    /\ UNCHANGED <<main_pc, main_c, called, received>>
    /\ UNCHANGED <<scan_vars, player_vars>>

(* the calls explored: the ring empty or with room for one more character  *)
(* before it is full, at most MaxCalls calls from the main context, MaxReceived    *)
(* characters received, and the transmitter ready again until SentRun      *)
(* characters have been sent                                               *)
MaxCalls == 2
MaxReceived == 2
SentRun == 3
SerialTails == {100}
PendingCounts == {0, TX_BUFLEN - 2}
PendingChars(n) == [i \in 1 .. n |-> 32 + (i % 32)]
MainChars == {65, 66}
ReceivedChars == {97}

InitSerial ==
    \E tail \in SerialTails, n \in PendingCounts :
    \E s \in {InitDetector(PowerOn)} :
        /\ StartScanner(s)
        /\ PlayerAtReset
        /\ SerialHolding(tail, PendingChars(n))

(* Dbg_puts calls USART2_putchar (c) *)
Dbg_puts ==
    \E c \in MainChars :
        /\ main_pc = "idle"
        /\ isr.at = "idle"
        /\ called < MaxCalls
        /\ main_pc' = "loop"
        /\ main_c' = c
        /\ called' = called + 1
        /\ UNCHANGED <<tx_buffer, tx_head, tx_tail, TXEIE, TXE, RXNE, isr, accepted, sent,
                       received>>
        /\ UNCHANGED <<scan_vars, player_vars>>

(* the USART has moved the character written to USART2->DR on: the data    *)
(* register is empty                                                       *)
transmitter_ready ==
    /\ ~TXE
    /\ Len(sent) < SentRun
    /\ TXE' = TRUE
    /\ UNCHANGED <<tx_buffer, tx_head, tx_tail, TXEIE, RXNE, main_pc, main_c, isr,
                   accepted, sent, called, received>>
    /\ UNCHANGED <<scan_vars, player_vars>>

(* the USART has received a character *)
receiver_full ==
    \E c \in ReceivedChars :
        /\ RXNE = <<>>
        /\ received < MaxReceived
        /\ RXNE' = <<c>>
        /\ received' = received + 1
        /\ UNCHANGED <<tx_buffer, tx_head, tx_tail, TXEIE, TXE, main_pc, main_c, isr,
                       accepted, sent, called>>
        /\ UNCHANGED <<scan_vars, player_vars>>

NextSerial ==
    Dbg_puts \/ USART2_putchar \/ USART2_IRQHandler \/ transmitter_ready \/ receiver_full

SpecSerial == InitSerial /\ [][NextSerial]_vars

(* the main context runs whenever the handler does not, and the handler is *)
(* entered whenever an interrupt is pending                                *)
SpecSerialFair ==
    SpecSerial /\ WF_vars(USART2_putchar) /\ WF_vars(USART2_IRQHandler)

----------------------------------------------------------------------------
(* Properties *)

HasKnock(d) == d % 2 = 1
HasBell(d) == (d \div 2) % 2 = 1

(* C1: batching independence.  However the samples given so far were split *)
(* into scan_audio calls, the results of the analysis ticks and the        *)
(* detector after the last sample are those of the same samples given one  *)
(* per call, with the same flags from the same start.                      *)
BatchingIndependence ==
    /\ history = ref_history
    /\ Detector = ref

(* a call that spans two analysis ticks has been made, and a knock has     *)
(* been reported on the way                                                *)
BatchedKnock ==
    /\ Len(ticks) = 2
    /\ \E i \in 1 .. Len(ref_history) : ref_history[i] = SCAN_KNOCK_DETECTED

(* C2: the reset law.  After scan_audio_init, whatever calls came before   *)
(* it, the samples given since yield the detections a fresh detector gives *)
(* on them.                                                                *)
ResetLaw == history_since_init = fresh_history

(* C10: the value scan_audio returns is the bitwise OR of the results of   *)
(* the analysis ticks inside the call: no bit but KNOCK and BELL, each set *)
(* exactly when some tick of the call reported it, and 0 when the call     *)
(* holds no tick.                                                          *)
ReturnIsOrOfTicks ==
    /\ detections \in 0 .. SCAN_KNOCK_DETECTED + SCAN_BELL_DETECTED
    /\ HasKnock(detections) <=> \E i \in 1 .. Len(ticks) : HasKnock(ticks[i].detections)
    /\ HasBell(detections) <=> \E i \in 1 .. Len(ticks) : HasBell(ticks[i].detections)
    /\ ticks = <<>> => detections = 0

(* a call whose first tick reported a knock and whose last reported none *)
KnockThenQuietTick ==
    /\ Len(ticks) = 2
    /\ ticks[1].detections = SCAN_KNOCK_DETECTED
    /\ ticks[2].detections = 0
    /\ detections = SCAN_KNOCK_DETECTED

(* the knock criteria on the peaks at the indices p1 < p2 < p3 of the      *)
(* buffer buf of n peaks, at the tick at sample_index; span / 2 and        *)
(* span / 3 are the integer quotients                                      *)
KnockCriteria(buf, n, p1, p2, p3, si, flags) ==
    LET span == buf[p3].time - buf[p1].time
        d1 == buf[p2].time - buf[p1].time
        d2 == buf[p3].time - buf[p2].time
        min_h == Min3(buf[p1].height, buf[p2].height, buf[p3].height)
        high == FlagSet(flags, SCAN_HIGH_SENSITIVITY)
    IN  /\ KNOCK_MIN_SPAN < span /\ span < KNOCK_MAX_SPAN
        /\ \A p \in {p1, p2, p3} : buf[p].width < 512
        /\ buf[p3].time + span \div 2 < si
        /\ IF high
           THEN 5 * (IF d1 > d2 THEN d1 ELSE d2) < 6 * (IF d1 > d2 THEN d2 ELSE d1)
           ELSE 10 * (IF d1 > d2 THEN d1 ELSE d2) < 11 * (IF d1 > d2 THEN d2 ELSE d1)
        /\ ~ \E i \in (0 .. n - 1) \ {p1, p2, p3} :
                /\ buf[p1].time - span \div 3 < buf[i].time
                /\ buf[i].time < buf[p3].time + span \div 3
                /\ IF high THEN 4 * buf[i].height > 3 * min_h
                           ELSE 2 * buf[i].height > min_h

HoldsTriple(tk) ==
    \E p1, p2, p3 \in 0 .. tk.searched - 1 :
        /\ p1 < p2 /\ p2 < p3
        /\ KnockCriteria(tk.searched_buffer, tk.searched, p1, p2, p3,
                         tk.sample_index, tk.flags)

(* C3: an analysis tick reports KNOCK exactly when the buffer it searches  *)
(* holds an ordered triple with 4000 < span < 12000, the three widths      *)
(* below 512, the post-roll p3.time + span/2 < sample_index elapsed, the   *)
(* larger gap below 1.1 times the smaller (1.2 in high-sensitivity mode),  *)
(* and no other peak strictly inside (p1.time - span/3, p3.time + span/3)  *)
(* higher than 0.5 (0.75) times the smallest of the three heights.         *)
KnockIffTriple ==
    \A k \in 1 .. Len(ticks) : HasKnock(ticks[k].detections) <=> HoldsTriple(ticks[k])

(* a knock reported from a buffer of four peaks: the triple and one more   *)
KnockAmongFour ==
    \E k \in 1 .. Len(ticks) :
        HasKnock(ticks[k].detections) /\ ticks[k].searched = 4

(* the bell condition on the peak at index i of the buffer the tick tk     *)
(* searched                                                                *)
Rings(tk, i) ==
    /\ tk.searched_buffer[i].time + SAMPLING_RATE > tk.sample_index
    /\ tk.filtered_level > 2 * tk.searched_buffer[i].filtered_level + 50 * FP

(* C4: an analysis tick reports BELL exactly when it reports no KNOCK and  *)
(* some buffered peak with time + 16000 > sample_index sees a bell level   *)
(* above twice its filtered level at start plus 50, having had 4 filter    *)
(* hits before; and the tick adds at most one hit to a peak, and none to a *)
(* peak the condition fails for.                                           *)
BellIffFifthHit ==
    \A k \in 1 .. Len(ticks) :
        /\ HasBell(ticks[k].detections) <=>
              /\ ~HasKnock(ticks[k].detections)
              /\ \E i \in 0 .. ticks[k].searched - 1 :
                    Rings(ticks[k], i) /\ ticks[k].searched_buffer[i].filter_hits = 4
        /\ \A i \in 0 .. ticks[k].searched - 1 :
              /\ ticks[k].peak_buffer[i].filter_hits
                     - ticks[k].searched_buffer[i].filter_hits \in {0, 1}
              /\ ticks[k].peak_buffer[i].filter_hits
                     /= ticks[k].searched_buffer[i].filter_hits => Rings(ticks[k], i)

(* a bell reported from a buffer of two peaks or more, an earlier one      *)
(* having gathered a hit at the same tick                                  *)
BellAfterEarlierHit ==
    \E k \in 1 .. Len(ticks) :
        /\ HasBell(ticks[k].detections)
        /\ \E i \in 0 .. ticks[k].searched - 1 :
              /\ ticks[k].searched_buffer[i].filter_hits < 4
              /\ ticks[k].peak_buffer[i].filter_hits
                     = ticks[k].searched_buffer[i].filter_hits + 1

(* C5: after every sample 0 <= num_peaks <= 16, and no call of add_peak    *)
(* leaves more than 16 peaks.                                              *)
NumPeaksInRange ==
    /\ num_peaks \in 0 .. MAX_NUM_PEAKS
    /\ \A k \in 1 .. Len(adds) : adds[k].num_peaks_after \in 1 .. MAX_NUM_PEAKS

(* add_peak has been called on a full buffer *)
AddedToFullBuffer ==
    \E k \in 1 .. Len(adds) :
        adds[k].num_peaks = MAX_NUM_PEAKS /\ adds[k].num_peaks_after = MAX_NUM_PEAKS

(* the peaks 0 .. n - 1 of buf are in strictly increasing order of time *)
InTimeOrder(buf, n) == \A i \in 0 .. n - 2 : buf[i].time < buf[i + 1].time

KeepsLargest(a) ==
    LET incumbents == {a.peak_buffer[i] : i \in 0 .. MAX_NUM_PEAKS - 1}
        kept == {a.peak_buffer_after[i] : i \in 0 .. MAX_NUM_PEAKS - 1}
    IN  /\ a.num_peaks_after = MAX_NUM_PEAKS
        /\ InTimeOrder(a.peak_buffer_after, MAX_NUM_PEAKS)
        /\ \E victim \in incumbents \cup {a.new_peak} :
              /\ \A c \in incumbents \cup {a.new_peak} : victim.height <= c.height
              /\ kept = (incumbents \cup {a.new_peak}) \ {victim}
        /\ (a.peak_buffer_after = a.peak_buffer) <=>
              ~ \E c \in incumbents : c.height < a.new_peak.height

(* C7: the eviction policy of the full buffer.  add_peak called with 16    *)
(* buffered peaks leaves 16 peaks in time order whose heights are the 16   *)
(* largest of the 17 candidates; the incoming peak is dropped, the buffer  *)
(* unchanged, exactly when no incumbent is strictly lower than it.         *)
EvictionPolicy ==
    \A k \in 1 .. Len(adds) : adds[k].num_peaks = MAX_NUM_PEAKS => KeepsLargest(adds[k])

(* a new peak as high as the lowest incumbent has been dropped *)
DroppedEqualPeak ==
    \E k \in 1 .. Len(adds) :
        /\ adds[k].num_peaks = MAX_NUM_PEAKS
        /\ adds[k].peak_buffer_after = adds[k].peak_buffer
        /\ \E i \in 0 .. MAX_NUM_PEAKS - 1 :
              adds[k].peak_buffer[i].height = adds[k].new_peak.height

(* C8: an analysis tick that reports a detection leaves the peak buffer    *)
(* empty: num_peaks is 0 when check_peaks returns, and still 0 after the   *)
(* call if the tick was its last sample.                                   *)
DetectionEmptiesBuffer ==
    \A k \in 1 .. Len(ticks) :
        ticks[k].detections /= 0 =>
            /\ ticks[k].num_peaks = 0
            /\ (k = Len(ticks) /\ sample_index = ticks[k].sample_index) => num_peaks = 0

(* a tick has reported a detection from a buffer of three peaks or more *)
DetectionFromPeaks ==
    \E k \in 1 .. Len(ticks) : ticks[k].detections /= 0 /\ ticks[k].searched >= 3

(* C9: no analysis tick reports both KNOCK and BELL. *)
NeverKnockAndBell ==
    \A k \in 1 .. Len(ticks) :
        ~(HasKnock(ticks[k].detections) /\ HasBell(ticks[k].detections))

(* a knock reported at a tick where a peak with 4 filter hits met the bell *)
(* condition                                                               *)
KnockWhereBellWasDue ==
    \E k \in 1 .. Len(ticks) :
        /\ HasKnock(ticks[k].detections)
        /\ \E i \in 0 .. ticks[k].searched - 1 :
              Rings(ticks[k], i) /\ ticks[k].searched_buffer[i].filter_hits = 4

(* the sum of the entries lo .. hi of a tuple *)
RECURSIVE SumOf(_, _, _)
SumOf(w, lo, hi) ==
    IF lo > hi THEN 0
    ELSE IF lo = hi THEN w[lo]
    ELSE SumOf(w, lo, (lo + hi) \div 2) + SumOf(w, (lo + hi) \div 2 + 1, hi)

(* C11: after every sample window_sum is the sum of the 256 entries of     *)
(* sample_window, and window_index is in 0 .. 255.                         *)
WindowSumIsSum ==
    /\ window_sum = SumOf(sample_window, 1, WINDOW_SIZE)
    /\ window_index \in 0 .. WINDOW_SIZE - 1

(* the window has gone round, a nonzero entry has expired and others are   *)
(* still in it                                                             *)
WindowWentRound ==
    /\ sample_index > 2 * WINDOW_SIZE
    /\ window_sum > 0
    /\ num_peaks > 0

(* C12: a peak that has been closed has area >= height > 0. *)
ClosedPeakArea ==
    (peak_started = 0 /\ current_peak /= ZeroPeak) =>
        current_peak.area >= current_peak.height /\ current_peak.height > 0

(* the sample_index of the i-th analysis tick of a scenario *)
ScenarioTick(i) == (ScenarioStart \div ANALYSIS_INTERVAL + i) * ANALYSIS_INTERVAL

(* the ticks of a scenario so far that reported a knock *)
KnockTicks == {i \in 1 .. Len(history) : HasKnock(history[i])}

(* scenario 1: the gaps are both 0.15 s *)
Scenario1 == current_peak.time = ScenarioFirst + 2 * KnockGap

(* C13, as claimed: in scenario 1 KNOCK is reported exactly once, at a     *)
(* tick no later than sample 39200 (2.45 s), and BELL never.               *)
Scenario1By39200 ==
    Scenario1 =>
        /\ \A i \in 1 .. Len(history) : ~HasBell(history[i])
        /\ \A i \in KnockTicks : ScenarioTick(i) <= ScenarioFirst + 2 * KnockGap + KnockGap
        /\ Cardinality(KnockTicks) <= 1
        /\ sample_index >= ScenarioFirst + 2 * KnockGap + KnockGap
               => Cardinality(KnockTicks) = 1

(* C13, amended: in scenario 1 KNOCK is reported exactly once, at the      *)
(* first tick whose sample_index is above 39200, the tick at sample 40000  *)
(* (2.50 s), and BELL never.                                               *)
Scenario1At40000 ==
    Scenario1 =>
        \A i \in 1 .. Len(history) :
            history[i] = IF ScenarioTick(i)
                              = ((ScenarioFirst + 3 * KnockGap) \div ANALYSIS_INTERVAL + 1)
                                    * ANALYSIS_INTERVAL
                         THEN SCAN_KNOCK_DETECTED ELSE 0

(* scenario 1 has run past its knock: later ticks have reported nothing *)
Scenario1Done ==
    /\ Scenario1
    /\ KnockTicks /= {}
    /\ Len(history) >= 4

(* C14: the spacing gate.  Three narrow peaks with gaps d1 = 2400 and d2,  *)
(* nothing else buffered: a tick reports KNOCK exactly when the peaks are  *)
(* still buffered, the post-roll has elapsed and the larger gap is below   *)
(* 1.1 times the smaller in normal mode, 1.2 times in high-sensitivity     *)
(* mode; so with d2 = 2760 no normal-mode tick reports it and a            *)
(* high-sensitivity tick does; and it is reported once at most.            *)
SpacingGate ==
    /\ \A k \in 1 .. Len(ticks) :
          HasKnock(ticks[k].detections) <=>
              /\ ticks[k].searched = 3
              /\ current_peak.time + (current_peak.time - ScenarioFirst) \div 2
                     < ticks[k].sample_index
              /\ IF FlagSet(ticks[k].flags, SCAN_HIGH_SENSITIVITY)
                 THEN 5 * (current_peak.time - ScenarioFirst - KnockGap) < 6 * KnockGap
                 ELSE 10 * (current_peak.time - ScenarioFirst - KnockGap) < 11 * KnockGap
    /\ Cardinality(KnockTicks) <= 1

(* with d2 = 2760, a normal-mode tick after the post-roll reported nothing *)
(* and a later high-sensitivity tick reported the knock                    *)
GateDependsOnMode ==
    /\ current_peak.time = ScenarioFirst + KnockGap + 2760
    /\ Len(history) >= 3
    /\ history[2] = 0
    /\ history[Len(history)] = SCAN_KNOCK_DETECTED

(* C16, as claimed: after every sample decorrelated_level is at least the  *)
(* minimum 1.0 it is clamped to.                                           *)
LevelClamped == decorrelated_level >= FP

(* C17: decorrelated_level is above zero after every sample of every       *)
(* stream, so the normalizer never divides by zero.                        *)
LevelPositive == decorrelated_level > 0

(* silence has taken the level below 1.0 *)
LevelBelowOne ==
    /\ sample_index > 0
    /\ last_sample = 0
    /\ decorrelated_level < FP

(* silence opens no peak, buffers none and reports nothing *)
SilenceIsQuiet ==
    /\ peak_started = 0
    /\ current_peak = ZeroPeak
    /\ num_peaks = 0
    /\ detections = 0
    /\ \A i \in 1 .. Len(history) : history[i] = 0

(* a call has run an analysis tick *)
TickRan == sample_index' \div ANALYSIS_INTERVAL > sample_index \div ANALYSIS_INTERVAL

TapFlags ==
    <<SCAN_OUTP_DECORR_AUDIO, SCAN_OUTP_DECORR_LEVEL, SCAN_OUTP_NORMAL_AUDIO,
      SCAN_OUTP_WINDOW_LEVEL, SCAN_OUTP_FILTER_AUDIO, SCAN_OUTP_FILTER_LEVEL>>
EnabledTaps(flags) == {j \in 1 .. 6 : FlagSet(flags, TapFlags[j])}

(* C18: a call on n samples with out_samples and k OUTP flags writes k * n *)
(* values: for each sample in turn the enabled taps in the order           *)
(* decorrelated audio, decorrelated level, normalized audio, window level, *)
(* filter audio, filter level; a call without out_samples writes nothing.  *)
TapsInOrder ==
    IF call.has_out
    THEN /\ Len(tap_log) = call.num_samples
         /\ Len(out_samples) = Cardinality(EnabledTaps(call.flags)) * call.num_samples
         /\ \A i \in 1 .. call.num_samples : \A j \in EnabledTaps(call.flags) :
               out_samples[(i - 1) * Cardinality(EnabledTaps(call.flags))
                           + Cardinality({m \in EnabledTaps(call.flags) : m <= j})]
                   = tap_log[i][j]
    ELSE out_samples = <<>>

(* a call on two samples has written all six taps of each, the first two   *)
(* of them different                                                       *)
SixTapsWritten ==
    /\ call.has_out
    /\ call.num_samples = 2
    /\ Cardinality(EnabledTaps(call.flags)) = 6
    /\ Len(out_samples) = 12
    /\ out_samples[1] /= out_samples[2]
    /\ out_samples[1] /= out_samples[4]

(* a call on one sample has closed the open peak *)
PeakCloses == peak_started = 1 /\ peak_started' = 0

AfterTick(ticked, threshold) ==
    IF ticked THEN MulRatio(threshold, 999, 1000) ELSE threshold

(* C20, as claimed: peak_threshold is multiplied by 1.01 once for each     *)
(* peak that is accepted and by 0.999 once at each analysis tick, and      *)
(* changes in no other way: a closed peak that is not accepted leaves it   *)
(* unchanged.                                                              *)
BumpOnAcceptance ==
    [][peak_threshold' =
          AfterTick(ticks' /= <<>>,
                    IF adds' /= <<>> THEN MulRatio(peak_threshold, 101, 100)
                    ELSE peak_threshold)]_vars

(* C20, amended: peak_threshold is multiplied by 1.01 once for each peak   *)
(* that closes with a height above it, accepted or not, and by 0.999 once  *)
(* at each analysis tick, and changes in no other way.                     *)
BumpOnRawPeak ==
    [][peak_threshold' =
          AfterTick(ticks' /= <<>>,
                    IF PeakCloses /\ current_peak.height * FP > peak_threshold
                    THEN MulRatio(peak_threshold, 101, 100)
                    ELSE peak_threshold)]_vars

(* a peak of height 40 has closed and was not added, and peak_threshold    *)
(* has one bump more than there are peaks                                  *)
BumpedByRejectedPeak ==
    /\ peak_started = 0
    /\ adds = <<>>
    /\ current_peak.height = 40
    /\ current_peak.time >= DenseTime
    /\ peak_threshold = Bumped(Decayed(30 * FP, DenseTime \div ANALYSIS_INTERVAL),
                               num_peaks + 1)

(* the window_level and the bell level of the sample of a call on one      *)
(* sample of given levels                                                  *)
LevelGiven == call'.in_samples[1][1]
BellGiven == call'.in_samples[1][2]

(* C21, as claimed: the area of a peak is the sum of the window_level      *)
(* values of all samples of its excursion: the opening sample sets it to   *)
(* its window_level, every further sample with window_level > 0 adds its   *)
(* window_level, and the closing sample leaves it as it is.                *)
AreaIsSumOfLevels ==
    [][/\ (peak_started = 0 /\ peak_started' = 1) => current_peak'.area = LevelGiven
       /\ (peak_started = 1 /\ peak_started' = 1)
              => current_peak'.area = current_peak.area + LevelGiven
       /\ PeakCloses => current_peak'.area = current_peak.area]_vars

(* C22: the height of a peak is the maximum window_level of its excursion, *)
(* its time the sample index of the first sample that attained it, and its *)
(* filtered_level the bell level at the opening sample: the opening sample *)
(* sets all three, a later sample changes height and time only if its      *)
(* window_level is above the height, and the closing sample changes none.  *)
HeightIsFirstMaximum ==
    [][/\ (peak_started = 0 /\ peak_started' = 1)
              => /\ current_peak'.height = LevelGiven
                 /\ current_peak'.time = sample_index
                 /\ current_peak'.filtered_level = BellGiven
       /\ (peak_started = 1 /\ peak_started' = 1)
              => /\ current_peak'.height
                        = IF LevelGiven > current_peak.height THEN LevelGiven
                          ELSE current_peak.height
                 /\ current_peak'.time
                        = IF LevelGiven > current_peak.height THEN sample_index
                          ELSE current_peak.time
                 /\ current_peak'.filtered_level = current_peak.filtered_level
       /\ PeakCloses
              => /\ current_peak'.height = current_peak.height
                 /\ current_peak'.time = current_peak.time
                 /\ current_peak'.filtered_level = current_peak.filtered_level]_vars

(* a peak has closed whose maximum of 120 came one sample after its onset  *)
ClosedAtLaterMaximum ==
    /\ peak_started = 0
    /\ adds /= <<>>
    /\ current_peak.height = 120
    /\ current_peak.time = DenseTime + 1

DayLoopReduces ==
    /\ [](sample_index <= DAY_SAMPLES)
    /\ [][(sample_index' - sample_index - call'.num_samples) % DAY_SAMPLES = 0]_vars

(* silence has taken sample_index past the end of the day and back *)
SilentDayReduced ==
    /\ sample_index \in 1 .. ANALYSIS_INTERVAL
    /\ peak_threshold = RestingThreshold
    /\ Len(history) = 1

(* C26: after the expiry step of every analysis tick no buffered peak has  *)
(* time + 24000 < sample_index, so a peak is out of the buffer from the    *)
(* first tick on whose sample_index exceeds its time + 24000; and when no  *)
(* further peaks are accepted the buffer becomes empty: it is empty once   *)
(* the first tick more than 24000 samples after the last peak has run.     *)
ExpiredPeaksLeave ==
    /\ [](\A k \in 1 .. Len(ticks) :
             /\ \A i \in 0 .. ticks[k].searched - 1 :
                   ticks[k].searched_buffer[i].time + 2 * KNOCK_MAX_SPAN
                       >= ticks[k].sample_index
             /\ \A i \in 0 .. ticks[k].num_peaks - 1 :
                   ticks[k].peak_buffer[i].time + 2 * KNOCK_MAX_SPAN
                       >= ticks[k].sample_index)
    /\ [](sample_index >= ExpiryEnd => num_peaks = 0)

(* the buffer has become empty with no detection: its peaks have expired *)
BufferExpired ==
    /\ num_peaks = 0
    /\ current_peak /= ZeroPeak
    /\ Len(history) >= (2 * KNOCK_MAX_SPAN) \div ANALYSIS_INTERVAL
    /\ \A i \in 1 .. Len(history) : history[i] = 0

(* C27: an analysis tick reports KNOCK only when the buffer it searches    *)
(* holds three peaks in time order with 4000 < span < 12000 and            *)
(* sample_index > time of the third + span / 2 (the integer quotient), so  *)
(* more than 2000 samples after the time of the third peak.                *)
KnockAfterPostRoll ==
    \A k \in 1 .. Len(ticks) :
        HasKnock(ticks[k].detections) =>
            \E p1, p2, p3 \in 0 .. ticks[k].searched - 1 :
                /\ p1 < p2 /\ p2 < p3
                /\ ticks[k].searched_buffer[p3].time - ticks[k].searched_buffer[p1].time > 4000
                /\ ticks[k].searched_buffer[p3].time - ticks[k].searched_buffer[p1].time < 12000
                /\ ticks[k].sample_index - ticks[k].searched_buffer[p3].time
                       > (ticks[k].searched_buffer[p3].time
                            - ticks[k].searched_buffer[p1].time) \div 2
                /\ ticks[k].sample_index - ticks[k].searched_buffer[p3].time > 2000

(* a knock at the first tick past the post-roll of its triple, the tick    *)
(* before having reported nothing: the triple was held back                *)
KnockHeldBack ==
    /\ Len(history) >= 2
    /\ history[Len(history) - 1] = 0
    /\ \E k \in 1 .. Len(ticks) :
          /\ HasKnock(ticks[k].detections)
          /\ \E p1, p2, p3 \in 0 .. ticks[k].searched - 1 :
                /\ p1 < p2 /\ p2 < p3
                /\ knock_triple_no_post_roll(ticks[k].searched_buffer, ticks[k].searched,
                                             p1, p2, p3, ticks[k].sample_index,
                                             ticks[k].flags)
                /\ ticks[k].searched_buffer[p3].time
                       + (ticks[k].searched_buffer[p3].time
                            - ticks[k].searched_buffer[p1].time) \div 2
                     >= ticks[k].sample_index - ANALYSIS_INTERVAL

(* C28: a tick reports BELL only for a peak that reaches its fifth filter  *)
(* hit at that tick, with the bell level above twice its level at start    *)
(* plus 50 and sample_index < time + 16000, and so later than four         *)
(* analysis intervals after its time; and a call whose tick comes first    *)
(* adds a hit to a buffered peak exactly when the bell level given to that *)
(* tick is above twice its level at start plus 50 and the tick's           *)
(* sample_index < time + 16000, a peak inserted by the call having no hit: *)
(* the five hits are five distinct ticks that saw the condition.           *)
BellAfterFiveHits ==
    /\ [](\A k \in 1 .. Len(ticks) :
             HasBell(ticks[k].detections) =>
                 \E i \in 0 .. ticks[k].searched - 1 :
                     /\ ticks[k].searched_buffer[i].filter_hits = 4
                     /\ ticks[k].peak_buffer[i].filter_hits = 5
                     /\ ticks[k].sample_index < ticks[k].searched_buffer[i].time + 16000
                     /\ ticks[k].sample_index
                            > ticks[k].searched_buffer[i].time + 4 * 1600
                     /\ ticks[k].filtered_level
                            > 2 * ticks[k].searched_buffer[i].filtered_level + 50 * FP)
    /\ [][\A i \in 0 .. num_peaks' - 1 :
             IF i < num_peaks /\ peak_buffer'[i].time = peak_buffer[i].time
             THEN peak_buffer'[i].filter_hits
                      = peak_buffer[i].filter_hits
                          + (IF /\ BellGiven > 2 * peak_buffer[i].filtered_level + 50 * FP
                                /\ sample_index + 1 < peak_buffer[i].time + 16000
                             THEN 1 ELSE 0)
             ELSE peak_buffer'[i].filter_hits = 0]_vars

(* BELL at the fifth tick after a peak that a call captured *)
BellAtFifthTick ==
    /\ Len(history) = 6
    /\ \A i \in 1 .. 5 : history[i] = 0
    /\ HasBell(history[6])
    /\ \E k \in 1 .. Len(ticks) :
          /\ HasBell(ticks[k].detections)
          /\ ticks[k].sample_index - ticks[k].searched_buffer[0].time < 5 * ANALYSIS_INTERVAL

(* a call of scan_audio on one sample: the sample given, and the           *)
(* decorrelated sample the code forms from it                              *)
OneSampleCall == call'.num_samples = 1 /\ sample_index' = sample_index + 1
RawGiven == call'.in_samples[1]
DecorrelatedGiven == Wrap16(RawGiven - ((weight * last_sample + 512) \div 1024))

(* C29, as claimed: a sample leaves weight unchanged if the raw input or   *)
(* the previous raw input is zero; otherwise it adds 2 when the two raw    *)
(* inputs have the same sign, and subtracts 2 when their signs differ.     *)
WeightFollowsRawInput ==
    [][OneSampleCall =>
          weight' = weight + (IF RawGiven = 0 \/ last_sample = 0 THEN 0
                              ELSE IF (RawGiven < 0) = (last_sample < 0) THEN 2
                              ELSE -2)]_vars

(* C29, amended: a sample leaves weight unchanged if the decorrelated      *)
(* sample y[n] or the previous raw input is zero; otherwise it adds 2 when *)
(* y[n] and the previous raw input have the same sign, and subtracts 2     *)
(* when their signs differ.                                                *)
WeightFollowsDecorrelated ==
    [][OneSampleCall =>
          weight' = weight + (IF DecorrelatedGiven = 0 \/ last_sample = 0 THEN 0
                              ELSE IF (DecorrelatedGiven < 0) = (last_sample < 0) THEN 2
                              ELSE -2)]_vars

(* a call on one sample of value 0 whose decorrelated sample was not 0,    *)
(* and has taken weight back to 0                                          *)
ZeroInputMovesWeight ==
    /\ call.num_samples = 1
    /\ call.in_samples[1] = 0
    /\ call.has_out
    /\ tap_log[1][1] < 0
    /\ weight = 0
    /\ last_sample = 0

(* C30: for every weight reached and every pair of 16-bit inputs, the      *)
(* decorrelated sample x[n] - ((weight * x[n-1] + 512) >> 10) lies in      *)
(* -32768 .. 32767, so that storing it in 16 bits changes nothing, and the *)
(* step of weight does not leave the 16-bit range either.                  *)
DecorrelatedFits ==
    [][OneSampleCall =>
          /\ RawGiven - ((weight * last_sample + 512) \div 1024) >= -32768
          /\ RawGiven - ((weight * last_sample + 512) \div 1024) <= 32767
          /\ out_samples' = <<RawGiven - ((weight * last_sample + 512) \div 1024)>>
          /\ weight' - weight \in {-2, 0, 2}]_vars

(* C31: every entry of sample_window is in 0 .. 32760, window_sum is in    *)
(* 0 .. 256 * 32760, and window_level, that is ((window_sum + 128) >> 8)   *)
(* - 128, is in -128 .. 32632 as computed and as written to the tap; the   *)
(* height of the current peak and of every buffered peak is in             *)
(* 0 .. 32632: all fit 16 bits.                                            *)
WindowFits ==
    /\ \A i \in 1 .. 256 : sample_window[i] >= 0 /\ sample_window[i] <= 32760
    /\ window_sum >= 0 /\ window_sum <= 256 * 32760
    /\ (window_sum + 128) \div 256 - 128 >= -128
    /\ (window_sum + 128) \div 256 - 128 <= 32632
    /\ call.num_samples > 0 =>
          tap_log[call.num_samples][4] = (window_sum + 128) \div 256 - 128
    /\ current_peak.height >= 0 /\ current_peak.height <= 32632
    /\ \A i \in 0 .. num_peaks - 1 :
          peak_buffer[i].height >= 0 /\ peak_buffer[i].height <= 32632

(* a sample has been clipped to 32760 and a peak is open *)
ClippedEntry ==
    /\ \E i \in 1 .. 256 : sample_window[i] = 32760
    /\ peak_started /= 0
    /\ current_peak.height > 0

(* C32: after every call, so between analysis ticks, every peak in the     *)
(* buffer has filter_hits in 0 .. 4 and the peak being captured has 0; a   *)
(* call takes no hit away from a peak it keeps in the buffer; and a tick   *)
(* that takes a peak to 5 hits leaves the buffer empty.                    *)
FilterHitsBelowFive ==
    /\ [](/\ \A i \in 0 .. num_peaks - 1 :
                peak_buffer[i].filter_hits >= 0 /\ peak_buffer[i].filter_hits <= 4
          /\ current_peak.filter_hits = 0
          /\ \A k \in 1 .. Len(ticks) :
                (\E i \in 0 .. ticks[k].searched - 1 :
                     ticks[k].peak_buffer[i].filter_hits >= 5)
                    => ticks[k].num_peaks = 0)
    /\ [][\A i \in 0 .. num_peaks' - 1 :
             (i < num_peaks /\ peak_buffer'[i].time = peak_buffer[i].time)
                 => peak_buffer'[i].filter_hits >= peak_buffer[i].filter_hits]_vars

(* a buffered peak with four hits, between two ticks *)
FourHitsBetweenTicks ==
    /\ sample_index % ANALYSIS_INTERVAL /= 0
    /\ \E i \in 0 .. num_peaks - 1 : peak_buffer[i].filter_hits = 4

(* C33: for every input stream sample_index stays within the range of a    *)
(* signed 32-bit integer: no sample is processed with sample_index at      *)
(* 2147483647, where ++sample_index overflows.                             *)
IndexNeverOverflows ==
    sample_index < 2147483647

(* a call of scan_audio on samples, and the flags of the call with every   *)
(* bit but SCAN_HIGH_SENSITIVITY cleared                                   *)
SamplesCall ==
    /\ call'.num_samples > 0
    /\ sample_index' = sample_index + call'.num_samples
SensitivityGiven ==
    IF FlagSet(call'.flags, SCAN_HIGH_SENSITIVITY) THEN SCAN_HIGH_SENSITIVITY ELSE 0

(* C34: a call of scan_audio leaves the detector in the state, and returns *)
(* the detections, that the call on the same samples without out_samples   *)
(* and with no flag but its SCAN_HIGH_SENSITIVITY bit leaves and returns:  *)
(* two runs on one stream that differ in the DISP and OUTP flags and in    *)
(* out_samples go through the same detector states.                        *)
DiagnosticsApart ==
    [][SamplesCall =>
          \E r \in {ScanAudio(Detector, call'.in_samples, "pcm", FALSE, SensitivityGiven)} :
              /\ r.s = Detector'
              /\ r.detections = detections']_vars

(* a call with display flags that logged and added a peak *)
LoggedAndAdded ==
    /\ FlagSet(call.flags, SCAN_DISP_PEAKS)
    /\ dbg_log /= <<>>
    /\ adds /= <<>>
    /\ num_peaks > 0

(* C35, as claimed: on one stream from the start, every analysis tick at   *)
(* which the detector in normal mode reports KNOCK is a tick at which the  *)
(* detector in high-sensitivity mode reports KNOCK.                        *)
NormalKnockIsHighKnock ==
    \A i \in 1 .. Len(history) :
        HasKnock(history[i]) =>
            i <= Len(ref_history) /\ HasKnock(ref_history[i])

(* C35, amended: at every analysis tick at which normal mode reports       *)
(* KNOCK, the knock search in high-sensitivity mode over the same buffer   *)
(* at the same sample_index reports KNOCK.                                 *)
KnockOnSameBuffer ==
    \A k \in 1 .. Len(ticks) :
        HasKnock(ticks[k].detections) =>
            HasKnock(knock_p1(ticks[k].searched_buffer,
                              [num_peaks |-> ticks[k].searched, detections |-> 0,
                               dbg |-> <<>>],
                              0, ticks[k].sample_index,
                              SCAN_HIGH_SENSITIVITY).detections)

(* normal mode reports a knock from its buffer of three peaks, and        *)
(* high-sensitivity mode, which holds a fourth peak, has reported none     *)
KnockInNormalModeOnly ==
    /\ \E k \in 1 .. Len(ticks) :
          HasKnock(ticks[k].detections) /\ ticks[k].searched = 3
    /\ \A i \in 1 .. Len(ref_history) : ~HasKnock(ref_history[i])
    /\ ref.num_peaks = 4

(* C40: the overload indicator.  After a WaveRecorderCallback whose buffer *)
(* holds a clipped sample (32700 or more, -32700 or less) the red LED is   *)
(* on; it stays on while fewer than 50 calls without a clipped sample have *)
(* followed (clip_timer, 50 after a clipped call and one less after every  *)
(* call without, is above 0), and is off once 50 have.                     *)
OverloadIndicator ==
    /\ recorded # <<>>
       /\ (\E i \in 1 .. Len(recorded) : recorded[i] >= 32700 \/ recorded[i] <= -32700)
       => LED5
    /\ clip_timer > 0 => LED5
    /\ clip_timer = 0 => ~LED5

(* the buffer WavePlayBack is filling, -2 when it is not in fill_buffer *)
Filling ==
    IF main_at = "fill0" THEN 0
    ELSE IF main_at \in {"first fill", "fill1"} THEN 1
    ELSE -2

FillLevel == (mic_head - mic_tail) % MIC_BUFFER_SAMPLES

Unsent == Len(accepted) - Len(sent)

(* C38: the integrity of the transmit ring.  Whatever the interleaving of  *)
(* the main-context calls, the transmit interrupt and the echo call in the *)
(* handler: the characters sent are the first of the characters stored, in *)
(* the order they were stored; every character stored and not yet sent is  *)
(* still in its slot; and with no call under way and the handler not       *)
(* running, the transmit interrupt is enabled if the ring holds a          *)
(* character.                                                              *)
RingIntegrity ==
    /\ Len(sent) <= Len(accepted)
    /\ \A i \in 1 .. Len(sent) : i <= Len(accepted) => sent[i] = accepted[i]
    /\ \A i \in 1 .. Unsent :
           /\ (tx_tail + i - 1) % TX_BUFLEN \in DOMAIN tx_buffer
           /\ tx_buffer[(tx_tail + i - 1) % TX_BUFLEN] = accepted[Len(sent) + i]
    /\ main_pc = "idle" /\ isr.at = "idle" /\ tx_head # tx_tail => TXEIE

(* C39: USART2_putchar returns.  If the USART keeps becoming ready to      *)
(* transmit, every call from the main context returns, and so does every   *)
(* call the handler makes to echo a character; a call waits in its loop    *)
(* only while the ring is full.                                            *)
PutcharReturns ==
    []<>TXE => /\ (main_pc # "idle") ~> (main_pc = "idle")
               /\ (isr.at = "loop") ~> (isr.at = "idle")

====
